---- MODULE Spec2Model ----
(***************************************************************************)
(* Model of go-game-vision: package image (CompareImages, the multi-scale  *)
(* template matcher, the coordinate mapper, FindAndClick), package         *)
(* capture, package process and package mouse.                             *)
(*                                                                         *)
(* float64 values are modelled exactly.  A non-negative finite float64 is  *)
(* the natural number of units of 2^-57 it is worth, written as a little-  *)
(* endian sequence of NLimbs limbs in base 2^15 (TLC integers are 32 bits  *)
(* wide).  Addition and multiplication are done exactly on the limbs and   *)
(* then rounded to 53 significant bits, round-half-to-even, as IEEE-754    *)
(* binary64 does.                                                          *)
(***************************************************************************)
EXTENDS Integers, Sequences, FiniteSets, TLC

\* ------------------------------------------------------------------------
\* float64 arithmetic on limbs
\* ------------------------------------------------------------------------

LimbBits == 15
Base == 2 ^ LimbBits
NLimbs == 5
\* one unit is 2^-57: 1.0 is 2^57 = 2^12 * Base^3
UnitLimb == 4
UnitShift == 2 ^ 12
MantBits == 53

LZero == [i \in 1..NLimbs |-> 0]

\* the natural number n < Base^2 as limbs
LFromNat(n) == [i \in 1..NLimbs |-> IF i = 1 THEN n % Base
                                    ELSE IF i = 2 THEN n \div Base ELSE 0]

RECURSIVE LAddFrom(_, _, _, _)
LAddFrom(a, b, i, carry) ==
  IF i > NLimbs THEN << >>
  ELSE LET s == a[i] + b[i] + carry
       IN  << s % Base >> \o LAddFrom(a, b, i + 1, s \div Base)

\* exact sum of two limb numbers
LAdd(a, b) == LAddFrom(a, b, 1, 0)

RECURSIVE LMulFrom(_, _, _, _)
LMulFrom(a, k, i, carry) ==
  IF i > NLimbs THEN << >>
  ELSE LET p == a[i] * k + carry
       IN  << p % Base >> \o LMulFrom(a, k, i + 1, p \div Base)

\* exact product of a limb number and a small natural k
LMulSmall(a, k) == LMulFrom(a, k, 1, 0)

RECURSIVE LCmpFrom(_, _, _)
LCmpFrom(a, b, i) ==
  IF i = 0 THEN 0
  ELSE IF a[i] < b[i] THEN -1
  ELSE IF a[i] > b[i] THEN 1
  ELSE LCmpFrom(a, b, i - 1)

\* -1, 0, 1 as a < b, a = b, a > b
LCmp(a, b) == LCmpFrom(a, b, NLimbs)
LLeq(a, b) == LCmp(a, b) <= 0
LLess(a, b) == LCmp(a, b) < 0

RECURSIVE BitLenNat(_)
BitLenNat(x) == IF x = 0 THEN 0 ELSE 1 + BitLenNat(x \div 2)

RECURSIVE LBitLenFrom(_, _)
LBitLenFrom(a, i) ==
  IF i = 0 THEN 0
  ELSE IF a[i] # 0 THEN LimbBits * (i - 1) + BitLenNat(a[i])
  ELSE LBitLenFrom(a, i - 1)

\* number of significant bits of a limb number
LBitLen(a) == LBitLenFrom(a, NLimbs)

\* Round the real number a + frac (in units, 0 <= frac < 1) to 53 significant
\* bits, ties to even.  fracZero: frac = 0;  fracHalf: -1, 0, 1 as frac is
\* less than, equal to or more than 1/2.
\* The bits cut off are the c low bits of a (c < LimbBits here).
LRound53(a, fracZero, fracHalf) ==
  LET c == LBitLen(a) - MantBits
  IN  IF c < 0 THEN a
      ELSE IF c = 0
      THEN IF fracHalf > 0 \/ (fracHalf = 0 /\ a[1] % 2 = 1)
           THEN LAdd(a, LFromNat(1)) ELSE a
      ELSE LET p == 2 ^ c
               r == a[1] % p
               half == p \div 2
               down == [a EXCEPT ![1] = a[1] - r]
               odd == (a[1] \div p) % 2 = 1
               up == \/ r > half
                     \/ r = half /\ ~fracZero
                     \/ r = half /\ fracZero /\ odd
           IN  IF up THEN LAdd(down, LFromNat(p)) ELSE down

\* float64 addition: the exact sum rounded once
F64Add(a, b) == LRound53(LAdd(a, b), TRUE, -1)

\* float64(n) * x for a small integer n: the exact product rounded once
F64MulInt(n, x) == LRound53(LMulSmall(x, n), TRUE, -1)

\* int(x): conversion of a non-negative float64 to int truncates
F64ToInt(x) == (x[UnitLimb] \div UnitShift) + x[UnitLimb + 1] * (Base \div UnitShift)

\* math.Round-style nearest integer of a non-negative float64 (half away from zero)
F64RoundToInt(x) ==
  LET halfBit == (x[UnitLimb] \div (UnitShift \div 2)) % 2
  IN  F64ToInt(x) + halfBit

RECURSIVE LDivFrom(_, _, _, _)
LDivFrom(a, d, i, rem) ==
  IF i = 0 THEN << rem >>
  ELSE LET cur == rem * Base + a[i]
       IN  LDivFrom(a, d, i - 1, cur % d) \o << cur \div d >>

\* the float64 nearest to the decimal h/100 (a literal such as 0.9 in a config),
\* for 4 <= h: the quotient h * 2^57 / 100 with its remainder, rounded once
F64FromHundredths(h) ==
  LET num == LMulSmall([LZero EXCEPT ![UnitLimb] = UnitShift], h)
      qr == LDivFrom(num, 100, NLimbs, 0)
      rem == qr[1]
      q == [i \in 1..NLimbs |-> qr[i + 1]]
  IN  LRound53(q, rem = 0,
               IF 2 * rem < 100 THEN -1 ELSE IF 2 * rem = 100 THEN 0 ELSE 1)

\* ------------------------------------------------------------------------
\* Inputs
\* ------------------------------------------------------------------------

\* largest template side, and largest config.MaxResults, of the inputs
MaxTemplateDim == 3
MaxResultsCap == 3
\* number of loop iterations a history keeps
MaxHistory == 4

\* image sizes <<Cols, Rows>>
TemplateSizes == {<< 1, 1 >>, << MaxTemplateDim - 1, MaxTemplateDim >>,
                  << MaxTemplateDim, MaxTemplateDim >>}
SourceSizes == {<< MaxTemplateDim + 1, MaxTemplateDim + 1 >>,
                << MaxTemplateDim + 2, MaxTemplateDim + 3 >>}

\* scale ranges <<MinScale, MaxScale, ScaleStep>> as the decimal literals of a
\* config, in hundredths (0.9 is 90)
ScaleRanges == {<< 100, 100, 10 >>, << 90, 110, 10 >>, << 100, 120, 10 >>,
                << 50, 200, 50 >>}

\* similarity scores and thresholds in hundredths; only their order is used
ScoreVals == {0, 60, 80, 90}
ThresholdVals == {0, 70}

\* the MultiScaleConfig written with the decimal literals lit = <<MinScale,
\* MaxScale, ScaleStep>>: each field holds the float64 nearest to its literal
MultiScaleConfig(lit, threshold, maxResults) ==
  [MinScale |-> F64FromHundredths(lit[1]),
   MaxScale |-> F64FromHundredths(lit[2]),
   ScaleStep |-> F64FromHundredths(lit[3]),
   Threshold |-> threshold,
   MaxResults |-> maxResults]

\* ------------------------------------------------------------------------
\* MatchResult
\* ------------------------------------------------------------------------

TemplateMatching == 0
FeatureMatching == 1
HistogramComparison == 2
StructuralSimilarity == 3
MultiScaleTemplate == 4

\* a nil pointer is the empty sequence, a non-nil one holds its target
Nil == << >>
Ref(x) == << x >>
Deref(p) == p[1]
\* the nil error (a nil interface value)
NoError == Nil

Point(x, y) == [X |-> x, Y |-> y]
ZeroPoint == Point(0, 0)
Rectangle(min, max) == [Min |-> min, Max |-> max]
ZeroRectangle == Rectangle(ZeroPoint, ZeroPoint)
Dx(r) == r.Max.X - r.Min.X
Dy(r) == r.Max.Y - r.Min.Y

\* MatchResult with the far corner of the box not moved to the match location
MatchResultBoxFromOrigin(similarity, maxLoc, scale, templateSize) ==
  [Similarity |-> similarity,
   Location |-> maxLoc,
   Confidence |-> similarity,
   Method |-> MultiScaleTemplate,
   Scale |-> scale,
   BoundingBox |-> Rectangle(maxLoc, Point(templateSize.X, templateSize.Y))]

\* the MatchResult built for a scale whose score is accepted
MatchResult(similarity, maxLoc, scale, templateSize) ==
  [Similarity |-> similarity,
   Location |-> maxLoc,
   Confidence |-> similarity,
   Method |-> MultiScaleTemplate,
   Scale |-> scale,
   BoundingBox |-> Rectangle(maxLoc, Point(maxLoc.X + templateSize.X,
                                           maxLoc.Y + templateSize.Y))]

\* the float64 1.0
F64One == [LZero EXCEPT ![UnitLimb] = UnitShift]

\* NoMatchResult with the 1.0 of Scale written into Confidence as well
NoMatchResultConfident ==
  [Similarity |-> 0,
   Location |-> ZeroPoint,
   Confidence |-> 100,
   Method |-> MultiScaleTemplate,
   Scale |-> F64One,
   BoundingBox |-> ZeroRectangle]

\* the result returned when bestResult is nil
NoMatchResult ==
  [Similarity |-> 0,
   Location |-> ZeroPoint,
   Confidence |-> 0,
   Method |-> MultiScaleTemplate,
   Scale |-> F64One,
   BoundingBox |-> ZeroRectangle]

\* ------------------------------------------------------------------------
\* The scale loop
\* ------------------------------------------------------------------------

\* templateSize: int(float64(template.Cols()) * scale), same for Rows
TemplateSize(template, scale) ==
  Point(F64ToInt(F64MulInt(template.Cols, scale)),
        F64ToInt(F64MulInt(template.Rows, scale)))

\* IsDegenerate with > for >= against the source size
IsDegenerateStrict(templateSize, source) ==
  \/ templateSize.X <= 0
  \/ templateSize.Y <= 0
  \/ templateSize.X > source.Cols
  \/ templateSize.Y > source.Rows

\* the scaled size is not valid: the scale is skipped
IsDegenerate(templateSize, source) ==
  \/ templateSize.X <= 0
  \/ templateSize.Y <= 0
  \/ templateSize.X >= source.Cols
  \/ templateSize.Y >= source.Rows

\* loop condition: scale <= config.MaxScale
LoopCond(sc, cfg) == LLeq(sc, cfg.MaxScale)

\* loop post statement: scale += config.ScaleStep
NextScale(sc, cfg) == F64Add(sc, cfg.ScaleStep)

\* IsBetter without the threshold test
IsBetterNoThreshold(similarity, best, cfg) == similarity > best

\* IsBetter without the comparison against the running best
IsBetterNoBest(similarity, best, cfg) == similarity >= cfg.Threshold

\* IsBetter with >= against the running best
IsBetterOrEqual(similarity, best, cfg) ==
  similarity >= best /\ similarity >= cfg.Threshold

\* best-match test of multiScaleTemplateMatching
IsBetter(similarity, best, cfg) ==
  similarity > best /\ similarity >= cfg.Threshold

\* acceptance test of MultiScaleTemplateMatchingAll
MeetsThreshold(similarity, cfg) == similarity >= cfg.Threshold

\* the break of MultiScaleTemplateMatchingAll
ReachedMaxResults(res, cfg) == Len(res) >= cfg.MaxResults

\* offsets MinMaxLoc can report for a template of this size: the corners of
\* the correlation surface
MaxLocs(source, templateSize) ==
  {ZeroPoint, Point(source.Cols - templateSize.X, source.Rows - templateSize.Y)}

Swap(r, i, j) == [r EXCEPT ![i] = r[j], ![j] = r[i]]

\* SortInner with the comparison reversed
RECURSIVE SortInnerAscending(_, _, _)
SortInnerAscending(r, i, j) ==
  IF j > Len(r) THEN r
  ELSE SortInnerAscending(IF r[i].Similarity > r[j].Similarity
                          THEN Swap(r, i, j) ELSE r, i, j + 1)

\* inner loop of the sort: j from the given index to the end
RECURSIVE SortInner(_, _, _)
SortInner(r, i, j) ==
  IF j > Len(r) THEN r
  ELSE SortInner(IF r[i].Similarity < r[j].Similarity THEN Swap(r, i, j) ELSE r,
                 i, j + 1)

\* outer loop of the sort: i from the given index to the last but one
RECURSIVE SortOuter(_, _)
SortOuter(r, i) ==
  IF i > Len(r) - 1 THEN r
  ELSE SortOuter(SortInner(r, i, i + 1), i + 1)

\* the in-place exchange sort by descending similarity
SortResults(r) == IF Len(r) > 1 THEN SortOuter(r, 1) ELSE r

\* ------------------------------------------------------------------------
\* package utils: log levels and errors
\* ------------------------------------------------------------------------

DEBUG == 0
INFO == 1
WARN == 2
ERROR == 3
SILENT == 4
LogLevels == DEBUG .. SILENT

\* a non-nil error is the chain of its messages, outermost first
Errorf(message) == << message >>
ErrCaptureFailure == Errorf("capture failed")
ErrWindowNotFound == Errorf("window not found")
\* the error a syscall proc.Call hands back: never nil
Errno == Errorf("errno")

\* WrapError with the nil test dropped
WrapErrorAlways(e, message) == << message >> \o e

\* utils.WrapError: nil stays nil
WrapError(e, message) == IF e = NoError THEN NoError ELSE << message >> \o e

\* utils.IsError: the two errors print the same text
IsError(e, target) == e = target

\* a history holds at most MaxHistory iterations of a loop: once full it
\* starts over with the newest one
Record(tr, it) == IF Len(tr) < MaxHistory THEN Append(tr, it) ELSE << it >>

\* ------------------------------------------------------------------------
\* State
\* ------------------------------------------------------------------------

VARIABLES
  pc,             \* "idle", or the function in its loop: "best", "all",
                  \* "allbreak" (MultiScaleTemplateMatchingAll after its break)
  source,         \* source Mat: [Cols, Rows]
  template,       \* template Mat: [Cols, Rows]
  config,         \* ic.multiScaleConfig
  literals,       \* the decimal literals <<MinScale, MaxScale, ScaleStep>> of config
  scale,          \* loop variable (float64)
  bestResult,     \* *MatchResult of multiScaleTemplateMatching, or Nil
  bestSimilarity, \* running best score
  results,        \* []*MatchResult of MultiScaleTemplateMatchingAll
  retBest,        \* Nil, or Ref of the *MatchResult CompareImages returned
  retAll,         \* Nil, or Ref of what MultiScaleTemplateMatchingAll returned
  err,            \* error returned by the last call
  corr,           \* what the correlation primitive answered, by scaled size
  traceBest,      \* history: one entry per loop iteration of the best search
  traceAll,       \* history: one entry per loop iteration of the all search
  \* package capture (Windows backend) and its environment
  osWindows,      \* the top-level windows of the process, as EnumWindows meets them
  osRect,         \* the rectangle the OS holds for each window handle
  cpc,            \* "idle", or the function CaptureWindowByPID is about to run
  call,           \* Nil, or Ref of the locals of the current or last capture call
  retCapture,     \* Nil, or Ref of what the last capture call returned
  retInfo,        \* Nil, or Ref of what the last GetWindowInfoByPID returned
  attempts,       \* history: what the current or last capture call went through
  pixelsRect,     \* history: Ref of the window's rectangle when the pixels were copied
  \* package utils: the logger
  currentLogLevel,
  enableLogging,
  logged,         \* history: the lines the logger wrote during the current call
  \* coordinate mapper
  match,          \* receiver m of ToScreenCoordinates / ToScreenBoundingBox
  windowInfo,     \* their argument
  screenPoint,    \* Nil, or Ref of what ToScreenCoordinates returned
  screenBox,      \* Nil, or Ref of what ToScreenBoundingBox returned
  \* package process (Windows backend) and its environment
  procTable,      \* the processes of the system, as the snapshot lists them
  ppc,            \* "idle", or where the process lookup is: "list", "filter"
  procCall,       \* Nil, or Ref of the function and arguments of the lookup
  processes,      \* what ListAllProcesses returned to the lookup
  found,          \* `result` of GetProcessByName
  visited,        \* number of processes the loop of GetProcessByName has seen
  retLookup,      \* Nil, or Ref of what the lookup returned
  \* package mouse and its environment
  platform,       \* the backend the build selected: "windows" or "darwin"
  screen,         \* the screen size the OS reports: [width, height]
  mcall,          \* Nil, or Ref of the function and arguments of the mouse call
  events,         \* history: the OS calls the current or last mouse call made
  retMouse,       \* Nil, or Ref of what the mouse call returned
  parked,         \* Nil, or Ref of what the click call has left to do while
                  \* its goroutine sleeps: [events, err]
  \* FindAndClick
  fpc,            \* "idle", or where FindAndClick is: "compare" (it waits for
                  \* CompareImages), "click" (it sleeps in the click), "done"
  fcall,          \* Nil, or Ref of the windowInfo and options of FindAndClick
  retFind,        \* Nil, or Ref of what FindAndClick returned
  \* concurrent match calls
  threads         \* the frame of multiScaleTemplateMatching in each goroutine

locals == << scale, bestResult, bestSimilarity, results >>
inputs == << source, template, config, literals >>
rets == << retBest, retAll, err >>

matcherVars == << pc, inputs, locals, rets, corr, traceBest, traceAll >>
osVars == << osWindows, osRect >>
loggerVars == << currentLogLevel, enableLogging >>
captureVars == << osVars, cpc, call, retCapture, retInfo, attempts, pixelsRect,
                 loggerVars, logged >>
mapperVars == << match, windowInfo, screenPoint, screenBox >>

processVars == << procTable, ppc, procCall, processes, found, visited,
                 retLookup >>

mouseVars == << platform, screen, mcall, events, retMouse, parked >>
findVars == << fpc, fcall, retFind >>

\* the packages modelled after the matcher, the capture backend and the mapper
moreVars == << processVars, mouseVars, findVars, threads >>

\* what the matcher leaves alone
others == << captureVars, mapperVars, moreVars >>

vars == << matcherVars, captureVars, mapperVars, moreVars >>

\* the capture backend and the logger as the package leaves them at start-up,
\* for a process that owns no window
CaptureAtRest ==
  /\ osWindows = << >>
  /\ osRect = << >>
  /\ cpc = "idle"
  /\ call = Nil
  /\ retCapture = Nil
  /\ retInfo = Nil
  /\ attempts = << >>
  /\ pixelsRect = Nil
  /\ currentLogLevel = INFO
  /\ enableLogging = TRUE
  /\ logged = << >>

\* no coordinate mapping asked for
MapperAtRest ==
  /\ match = Nil
  /\ windowInfo = Nil
  /\ screenPoint = Nil
  /\ screenBox = Nil

\* no match call running or returned, for the given inputs
MatcherAtRest ==
  /\ pc = "idle"
  /\ scale = LZero
  /\ bestResult = Nil
  /\ bestSimilarity = 0
  /\ results = << >>
  /\ retBest = Nil
  /\ retAll = Nil
  /\ err = NoError
  /\ corr = << >>
  /\ traceBest = << >>
  /\ traceAll = << >>

\* no process lookup asked for, on a system whose process table plays no part
ProcessAtRest ==
  /\ procTable = << >>
  /\ ppc = "idle"
  /\ procCall = Nil
  /\ processes = << >>
  /\ found = << >>
  /\ visited = 0
  /\ retLookup = Nil

\* no mouse call made
MouseAtRest ==
  /\ platform = "windows"
  /\ screen = [width |-> 0, height |-> 0]
  /\ mcall = Nil
  /\ events = << >>
  /\ retMouse = Nil
  /\ parked = Nil

\* FindAndClick not called
FindAtRest ==
  /\ fpc = "idle"
  /\ fcall = Nil
  /\ retFind = Nil

\* no goroutine started
ThreadsAtRest == threads = << >>

MoreAtRest == ProcessAtRest /\ MouseAtRest /\ FindAtRest /\ ThreadsAtRest

Init ==
  /\ pc = "idle"
  /\ \E s \in SourceSizes : source = [Cols |-> s[1], Rows |-> s[2]]
  /\ \E t \in TemplateSizes : template = [Cols |-> t[1], Rows |-> t[2]]
  /\ literals \in ScaleRanges
  /\ \E th \in ThresholdVals, mr \in 1..MaxResultsCap :
       config = MultiScaleConfig(literals, th, mr)
  /\ scale = LZero
  /\ bestResult = Nil
  /\ bestSimilarity = 0
  /\ results = << >>
  /\ retBest = Nil
  /\ retAll = Nil
  /\ err = NoError
  /\ corr = << >>
  /\ traceBest = << >>
  /\ traceAll = << >>
  /\ CaptureAtRest
  /\ MapperAtRest
  /\ MoreAtRest

\* history entry of one iteration
Iteration(sc, size, evaluated, similarity, maxLoc) ==
  [scale |-> sc, size |-> size, evaluated |-> evaluated,
   similarity |-> similarity, maxLoc |-> maxLoc]

\* gocv.Resize + gocv.MatchTemplate + gocv.MinMaxLoc on the template scaled to
\* size: the answer is a function of the inputs, fixed the first time it is asked
Correlate(size, similarity, maxLoc) ==
  LET key == << size.X, size.Y >>
      known == {i \in 1..Len(corr) : corr[i].key = key}
  IN  IF known # {}
      THEN /\ \E i \in known : /\ similarity = corr[i].similarity
                                /\ maxLoc = corr[i].maxLoc
           /\ corr' = corr
      ELSE /\ similarity \in ScoreVals
           /\ maxLoc \in MaxLocs(source, size)
           /\ corr' = Append(corr, [key |-> key, similarity |-> similarity,
                                    maxLoc |-> maxLoc])

\* multiScaleTemplateMatching up to its loop
CallBest ==
  /\ UNCHANGED others
  /\ pc = "idle"
  /\ retBest = Nil
  /\ err = NoError
  /\ pc' = "best"
  /\ bestResult' = Nil
  /\ bestSimilarity' = 0
  /\ scale' = config.MinScale
  /\ UNCHANGED << inputs, results, rets, corr, traceBest, traceAll >>

\* an iteration of multiScaleTemplateMatching whose scaled size is not valid
BestSkip ==
  /\ UNCHANGED others
  /\ pc = "best"
  /\ LoopCond(scale, config)
  /\ IsDegenerate(TemplateSize(template, scale), source)
  /\ scale' = NextScale(scale, config)
  /\ traceBest' = Record(traceBest,
                         Iteration(scale, TemplateSize(template, scale),
                                   FALSE, 0, ZeroPoint))
  /\ UNCHANGED << pc, inputs, bestResult, bestSimilarity, results, rets,
                  corr, traceAll >>

\* an iteration of multiScaleTemplateMatching that correlates
BestEval ==
  /\ UNCHANGED others
  /\ pc = "best"
  /\ LoopCond(scale, config)
  /\ LET size == TemplateSize(template, scale)
     IN  /\ ~IsDegenerate(size, source)
         /\ \E similarity \in ScoreVals, maxLoc \in MaxLocs(source, size) :
              /\ Correlate(size, similarity, maxLoc)
              /\ IF IsBetter(similarity, bestSimilarity, config)
                 THEN /\ bestResult' =
                           Ref(MatchResult(similarity, maxLoc, scale, size))
                      /\ bestSimilarity' = similarity
                 ELSE UNCHANGED << bestResult, bestSimilarity >>
              /\ traceBest' = Record(traceBest, Iteration(scale, size, TRUE,
                                                          similarity, maxLoc))
  /\ scale' = NextScale(scale, config)
  /\ UNCHANGED << pc, inputs, results, rets, traceAll >>

\* loop exit of multiScaleTemplateMatching and its return
BestReturn ==
  /\ UNCHANGED others
  /\ pc = "best"
  /\ ~LoopCond(scale, config)
  /\ pc' = "idle"
  /\ retBest' = Ref(IF bestResult = Nil THEN NoMatchResult ELSE Deref(bestResult))
  /\ err' = NoError
  /\ scale' = LZero
  /\ bestResult' = Nil
  /\ bestSimilarity' = 0
  /\ UNCHANGED << inputs, results, retAll, corr, traceBest, traceAll >>

\* MultiScaleTemplateMatchingAll up to its loop
CallAll ==
  /\ UNCHANGED others
  /\ pc = "idle"
  /\ retAll = Nil
  /\ pc' = "all"
  /\ results' = << >>
  /\ scale' = config.MinScale
  /\ UNCHANGED << inputs, bestResult, bestSimilarity, rets, corr,
                  traceBest, traceAll >>

\* an iteration of MultiScaleTemplateMatchingAll whose scaled size is not valid
AllSkip ==
  /\ UNCHANGED others
  /\ pc = "all"
  /\ LoopCond(scale, config)
  /\ IsDegenerate(TemplateSize(template, scale), source)
  /\ scale' = NextScale(scale, config)
  /\ traceAll' = Record(traceAll,
                        Iteration(scale, TemplateSize(template, scale),
                                  FALSE, 0, ZeroPoint))
  /\ UNCHANGED << pc, inputs, bestResult, bestSimilarity, results, rets,
                  corr, traceBest >>

\* an iteration of MultiScaleTemplateMatchingAll that correlates
AllEval ==
  /\ UNCHANGED others
  /\ pc = "all"
  /\ LoopCond(scale, config)
  /\ LET size == TemplateSize(template, scale)
     IN  /\ ~IsDegenerate(size, source)
         /\ \E similarity \in ScoreVals, maxLoc \in MaxLocs(source, size) :
              /\ Correlate(size, similarity, maxLoc)
              /\ results' = IF MeetsThreshold(similarity, config)
                            THEN Append(results,
                                        MatchResult(similarity, maxLoc, scale, size))
                            ELSE results
              /\ traceAll' = Record(traceAll, Iteration(scale, size, TRUE,
                                                        similarity, maxLoc))
  /\ IF ReachedMaxResults(results', config)
     THEN /\ pc' = "allbreak"
          /\ scale' = scale
     ELSE /\ pc' = "all"
          /\ scale' = NextScale(scale, config)
  /\ UNCHANGED << inputs, bestResult, bestSimilarity, rets, traceBest >>

\* loop exit of MultiScaleTemplateMatchingAll, the sort and the return
AllReturn ==
  /\ UNCHANGED others
  /\ \/ pc = "allbreak"
     \/ pc = "all" /\ ~LoopCond(scale, config)
  /\ pc' = "idle"
  /\ retAll' = Ref(SortResults(results))
  /\ err' = NoError
  /\ scale' = LZero
  /\ results' = << >>
  /\ UNCHANGED << inputs, bestResult, bestSimilarity, retBest, corr,
                  traceBest, traceAll >>

Next ==
  \/ CallBest
  \/ BestSkip
  \/ BestEval
  \/ BestReturn
  \/ CallAll
  \/ AllSkip
  \/ AllEval
  \/ AllReturn

Spec == Init /\ [][Next]_vars

\* ------------------------------------------------------------------------
\* Properties
\* ------------------------------------------------------------------------

\* indices of the iterations of a history that correlated
Evals(tr) == {i \in 1..Len(tr) : tr[i].evaluated}

\* the largest score of a history with at least one correlated iteration
MaxScore(tr) ==
  CHOOSE m \in {tr[i].similarity : i \in Evals(tr)} :
    \A i \in Evals(tr) : tr[i].similarity <= m

\* some correlated iteration of the history scored at least the threshold
SomeAbove(tr) == \E i \in Evals(tr) : tr[i].similarity >= config.Threshold

BestRet == Deref(retBest)
AllRet == Deref(retAll)

\* C1: Threshold enforcement.  The best match returned has Similarity 0 or
\* Similarity >= config.Threshold, and every entry of the list returned by
\* MultiScaleTemplateMatchingAll has Similarity >= config.Threshold.
C1_ThresholdEnforced ==
  /\ retBest # Nil =>
       \/ BestRet.Similarity = 0
       \/ BestRet.Similarity >= config.Threshold
  /\ retAll # Nil =>
       \A i \in 1..Len(AllRet) : AllRet[i].Similarity >= config.Threshold

\* both searches ran over a scale whose nonzero score is below the threshold
\* and both still returned a match
C1_Witness ==
  /\ retBest # Nil
  /\ retAll # Nil
  /\ \E i \in Evals(traceBest) :
       /\ traceBest[i].similarity # 0
       /\ traceBest[i].similarity < config.Threshold
  /\ BestRet.Similarity > 0
  /\ Len(AllRet) > 0

\* C2 as claimed: Best-of-search.  When some correlated scale scores at least
\* the threshold, the best match has the maximum score of all correlated
\* scales, and its Location and Scale are those of a scale with that score.
C2_BestOfSearch_Claimed ==
  (retBest # Nil /\ SomeAbove(traceBest)) =>
    /\ BestRet.Similarity = MaxScore(traceBest)
    /\ \E i \in Evals(traceBest) :
         /\ traceBest[i].similarity = MaxScore(traceBest)
         /\ BestRet.Location = traceBest[i].maxLoc
         /\ BestRet.Scale = traceBest[i].scale

\* C2 as amended: Best-of-search.  When some correlated scale scores at least
\* the threshold, the best match has the maximum score of all correlated
\* scales; when that maximum is above 0 its Location and Scale are those of a
\* scale with that score, and when it is 0 (threshold 0) the result is the
\* no-match result.
C2_BestOfSearch ==
  (retBest # Nil /\ SomeAbove(traceBest)) =>
    /\ BestRet.Similarity = MaxScore(traceBest)
    /\ MaxScore(traceBest) > 0 =>
         \E i \in Evals(traceBest) :
           /\ traceBest[i].similarity = MaxScore(traceBest)
           /\ BestRet.Location = traceBest[i].maxLoc
           /\ BestRet.Scale = traceBest[i].scale
    /\ MaxScore(traceBest) = 0 => BestRet = NoMatchResult

\* the best search returned the score of a scale that is neither the first nor
\* the last it correlated, and lower scores at or above the threshold were seen
C2_Witness ==
  /\ retBest # Nil
  /\ \E i, j, k \in Evals(traceBest) :
       /\ i < j /\ j < k
       /\ traceBest[j].similarity = BestRet.Similarity
       /\ traceBest[j].scale = BestRet.Scale
       /\ traceBest[i].similarity < traceBest[j].similarity
       /\ traceBest[i].similarity >= config.Threshold
       /\ traceBest[i].similarity > 0
       /\ traceBest[k].similarity < traceBest[j].similarity

\* indices of the correlated iterations that reached the maximum score
Peaks(tr) == {i \in Evals(tr) : tr[i].similarity = MaxScore(tr)}

\* C3 as claimed: Tie-break.  When two or more correlated scales share the
\* maximum score (>= threshold), the best match is at the smallest of them.
C3_TieBreak_Claimed ==
  (retBest # Nil /\ SomeAbove(traceBest) /\ Cardinality(Peaks(traceBest)) >= 2) =>
    /\ \E i \in Peaks(traceBest) : BestRet.Scale = traceBest[i].scale
    /\ \A i \in Peaks(traceBest) : LLeq(BestRet.Scale, traceBest[i].scale)

\* C3 as amended: Tie-break.  When two or more correlated scales share a
\* maximum score that is >= threshold and above 0, the best match is at the
\* smallest of them.
C3_TieBreak ==
  (/\ retBest # Nil
   /\ SomeAbove(traceBest)
   /\ Cardinality(Peaks(traceBest)) >= 2
   /\ MaxScore(traceBest) > 0) =>
    /\ \E i \in Peaks(traceBest) : BestRet.Scale = traceBest[i].scale
    /\ \A i \in Peaks(traceBest) : LLeq(BestRet.Scale, traceBest[i].scale)

\* two scales tied at a maximum above 0 and the smaller was returned
C3_Witness ==
  /\ retBest # Nil
  /\ SomeAbove(traceBest)
  /\ MaxScore(traceBest) > 0
  /\ \E i, j \in Peaks(traceBest) :
       /\ i < j
       /\ BestRet.Scale = traceBest[i].scale
       /\ LLess(traceBest[i].scale, traceBest[j].scale)

\* C4: No-match outcome.  If no correlated scale scores at least the
\* threshold (also when every scale is skipped), the best search returns,
\* with a nil error, Similarity 0, Confidence 0, Location (0,0) and an empty
\* BoundingBox.
C4_NoMatch ==
  (retBest # Nil /\ ~SomeAbove(traceBest)) =>
    /\ err = NoError
    /\ BestRet.Similarity = 0
    /\ BestRet.Confidence = 0
    /\ BestRet.Location = ZeroPoint
    /\ BestRet.BoundingBox = ZeroRectangle

\* the best search returned after correlating only scales whose nonzero
\* scores are below the threshold
C4_ScoredBelowThreshold ==
  /\ retBest # Nil
  /\ Evals(traceBest) # {}
  /\ ~SomeAbove(traceBest)
  /\ \E i \in Evals(traceBest) : traceBest[i].similarity > 0

\* the best search returned after a loop that skipped every scale: the
\* template is as large as the source
C4_Witness ==
  /\ retBest # Nil
  /\ err = NoError
  /\ Len(traceBest) >= 2
  /\ Evals(traceBest) = {}
  /\ BestRet.Similarity = 0
  /\ BestRet.BoundingBox = ZeroRectangle

\* number of scales MinScale + k*ScaleStep <= MaxScale of the decimal literals
IntendedScales(lit) == (lit[2] - lit[1]) \div lit[3] + 1

\* the all search left its loop by the loop condition, not by the break
AllRanToEnd == retAll # Nil /\ Len(AllRet) < config.MaxResults

\* C5: Scale range inclusivity.  A search that runs its loop to the end goes
\* through every scale MinScale + k*ScaleStep <= MaxScale, MaxScale included
\* when the range is a whole number of steps: it makes one iteration per such
\* scale.
C5_ScaleRangeInclusive ==
  /\ retBest # Nil => Len(traceBest) = IntendedScales(literals)
  /\ AllRanToEnd => Len(traceAll) = IntendedScales(literals)

\* the two ranges the claim names do behave as it says: 1.0..1.0 by 0.1
\* makes one iteration, 0.9..1.1 by 0.1 makes three
NamedRangesInclusive ==
  retBest # Nil =>
    /\ literals = << 100, 100, 10 >> => Len(traceBest) = 1
    /\ literals = << 90, 110, 10 >> => Len(traceBest) = 3

\* width and height of the box of a result
BoxSize(r) == Point(Dx(r.BoundingBox), Dy(r.BoundingBox))

\* the matches returned: the best match when one was found, the list entries
Matches ==
  (IF retBest # Nil /\ BestRet.Similarity > 0 THEN {BestRet} ELSE {})
  \cup (IF retAll # Nil THEN {AllRet[i] : i \in 1..Len(AllRet)} ELSE {})

\* a correlated iteration of either history at this scale with this size
ResizedTo(sc, size) ==
  \E tr \in {traceBest, traceAll} :
    \E i \in Evals(tr) : tr[i].scale = sc /\ tr[i].size = size

\* C6: Bounding box scaling consistency.  For every match found at scale s the
\* box is round(template.width * s) wide and round(template.height * s) high,
\* rounding to nearest.
C6_BoxScaling ==
  \A r \in Matches :
    BoxSize(r) = Point(F64RoundToInt(F64MulInt(template.Cols, r.Scale)),
                       F64RoundToInt(F64MulInt(template.Rows, r.Scale)))

\* what the code gives instead: the box has the size the template was resized
\* to at that scale, which is the float64 product truncated toward zero
BoxIsResizedSize ==
  \A r \in Matches :
    /\ BoxSize(r) = Point(F64ToInt(F64MulInt(template.Cols, r.Scale)),
                          F64ToInt(F64MulInt(template.Rows, r.Scale)))
    /\ ResizedTo(r.Scale, BoxSize(r))

Min2(a, b) == IF a < b THEN a ELSE b

\* C7: MatchAllScales top-N.  The list holds the config.MaxResults highest
\* scores among all scales of the range that score at least the threshold:
\* once both searches ran on the same inputs, no scale the best search saw at
\* or above the threshold is missing from the list while the list holds an
\* entry of strictly lower similarity.
C7_TopN ==
  (retBest # Nil /\ retAll # Nil) =>
    LET above == {i \in Evals(traceBest) :
                    traceBest[i].similarity >= config.Threshold}
    IN  /\ Len(AllRet) = Min2(config.MaxResults, Cardinality(above))
        /\ \A i \in above :
             \/ \E j \in 1..Len(AllRet) : AllRet[j].Scale = traceBest[i].scale
             \/ \A j \in 1..Len(AllRet) :
                  AllRet[j].Similarity >= traceBest[i].similarity

\* the candidates the all search collected, in the order it met them
RECURSIVE Candidates(_)
Candidates(tr) ==
  IF tr = << >> THEN << >>
  ELSE LET e == tr[Len(tr)]
           front == Candidates(SubSeq(tr, 1, Len(tr) - 1))
       IN  IF e.evaluated /\ e.similarity >= config.Threshold
           THEN Append(front, MatchResult(e.similarity, e.maxLoc, e.scale, e.size))
           ELSE front

\* how many entries of the sequence equal x
Count(seq, x) == Cardinality({i \in 1..Len(seq) : seq[i] = x})

\* C8: MatchAllScales ordering.  The returned list is sorted by Similarity in
\* non-increasing order and is a permutation of the collected candidates.
C8_SortedPermutation ==
  retAll # Nil =>
    /\ \A i, j \in 1..Len(AllRet) :
         i < j => AllRet[i].Similarity >= AllRet[j].Similarity
    /\ Len(AllRet) = Len(Candidates(traceAll))
    /\ \A i \in 1..Len(AllRet) :
         Count(AllRet, AllRet[i]) = Count(Candidates(traceAll), AllRet[i])

\* three candidates were collected in ascending order of score and returned
\* in descending order
C8_Witness ==
  /\ retAll # Nil
  /\ Len(AllRet) = 3
  /\ LET c == Candidates(traceAll)
     IN  /\ c[1].Similarity < c[2].Similarity
         /\ c[2].Similarity < c[3].Similarity
         /\ AllRet = << c[3], c[2], c[1] >>

\* the scaled size at this scale is <= 0 or >= the source size
DegenerateAt(sc) ==
  LET w == F64ToInt(F64MulInt(template.Cols, sc))
      h == F64ToInt(F64MulInt(template.Rows, sc))
  IN  w <= 0 \/ h <= 0 \/ w >= source.Cols \/ h >= source.Rows

\* the history of the running search grows by one iteration that did not
\* correlate, the other history stays
SkippedIteration ==
  LET grows(tr, trNext) ==
        /\ Len(trNext) = Len(tr) + 1
        /\ SubSeq(trNext, 1, Len(tr)) = tr
        /\ ~trNext[Len(trNext)].evaluated
        /\ trNext[Len(trNext)].scale = scale
  IN  IF pc = "best"
      THEN grows(traceBest, traceBest') /\ traceAll' = traceAll
      ELSE grows(traceAll, traceAll') /\ traceBest' = traceBest

\* C10: Degenerate-scale skip.  A loop iteration at a scale whose scaled size
\* is <= 0 or >= the source size does not correlate, leaves the running best
\* and the result list as they are, returns nothing, and moves on to the next
\* scale of the same search.
C10_SkipFrame ==
  [][(/\ pc \in {"best", "all"}
      /\ LLeq(scale, config.MaxScale)
      /\ DegenerateAt(scale))
     => (/\ pc' = pc
         /\ scale' = F64Add(scale, config.ScaleStep)
         /\ SkippedIteration
         /\ UNCHANGED << bestResult, bestSimilarity, results, retBest,
                         retAll, err, corr >>)]_vars

\* the best search skipped a scale and found its match at a later scale
C10_Witness ==
  /\ retBest # Nil
  /\ BestRet.Similarity > 0
  /\ \E i, j \in 1..Len(traceBest) :
       /\ i < j
       /\ ~traceBest[i].evaluated
       /\ traceBest[j].evaluated
       /\ traceBest[j].scale = BestRet.Scale

\* ------------------------------------------------------------------------
\* The matcher under any config a caller can pass
\* ------------------------------------------------------------------------

\* the float64 2^-57, below half an ulp of every scale >= 0.5
F64Tiny == LFromNat(1)

\* source and template of the calls made with any config
AnySource == << MaxTemplateDim + 1, MaxTemplateDim + 1 >>
\* the last template is as large as the source: no scale from 1.0 on fits
AnyTemplates == {<< 1, 1 >>, << MaxTemplateDim, MaxTemplateDim >>,
                 << MaxTemplateDim + 1, MaxTemplateDim + 1 >>}

\* configs NewImageComparerWithConfig takes as they are: two that meet the
\* documented requirements, then one for each requirement broken
AnyConfigs ==
  { MultiScaleConfig(<< 100, 150, 50 >>, 70, 2),
    [MultiScaleConfig(<< 100, 150, 50 >>, 70, 2) EXCEPT !.ScaleStep = F64Tiny],
    [MultiScaleConfig(<< 50, 100, 50 >>, 70, 2) EXCEPT !.MinScale = LZero],
    MultiScaleConfig(<< 150, 100, 50 >>, 70, 2),
    [MultiScaleConfig(<< 100, 150, 50 >>, 70, 2) EXCEPT !.ScaleStep = LZero],
    MultiScaleConfig(<< 100, 150, 50 >>, 150, 2),
    MultiScaleConfig(<< 100, 150, 50 >>, 0 - 10, 2),
    MultiScaleConfig(<< 100, 150, 50 >>, 70, 0) }

\* the requirements the documentation puts on a config
ConfigValid(cfg) ==
  /\ LLess(LZero, cfg.MinScale)
  /\ LLeq(cfg.MinScale, cfg.MaxScale)
  /\ LLess(LZero, cfg.ScaleStep)
  /\ cfg.Threshold >= 0
  /\ cfg.Threshold <= 100
  /\ cfg.MaxResults >= 1

InitAnyConfig ==
  /\ source = [Cols |-> AnySource[1], Rows |-> AnySource[2]]
  /\ \E t \in AnyTemplates : template = [Cols |-> t[1], Rows |-> t[2]]
  /\ config \in AnyConfigs
  /\ literals = << >>
  /\ MatcherAtRest
  /\ CaptureAtRest
  /\ MapperAtRest
  /\ MoreAtRest

SpecAnyConfig == InitAnyConfig /\ [][Next]_vars

\* C9: MatchAllScales cap.  For every config with MaxResults >= 1 the list
\* holds at most config.MaxResults entries, no two of them from the same
\* scale.  Stated for the configs that meet every documented requirement,
\* MaxResults >= 1 among them.
C9_Cap ==
  (retAll # Nil /\ ConfigValid(config)) =>
    /\ Len(AllRet) <= config.MaxResults
    /\ \A i, j \in 1..Len(AllRet) : i # j => AllRet[i].Scale # AllRet[j].Scale

\* C11: a multi-scale match call given a config that breaks a documented
\* requirement returns an error; it never returns a result or a result list
\* with a nil error
C11_FailFast ==
  ~ConfigValid(config) =>
    ~(err = NoError /\ (retBest # Nil \/ retAll # Nil))

\* C12: a call with a config that meets the documented requirements returns,
\* because the scale strictly advances toward MaxScale in every loop iteration
\* that is followed by another one, skipped scales included (an iteration that
\* leaves the scale where it was is repeated without end)
C12_ScaleAdvances ==
  [][(ConfigValid(config) /\ pc \in {"best", "all"} /\ pc' = pc)
       => LLess(scale, scale')]_vars

\* ------------------------------------------------------------------------
\* Coordinate mapper
\* ------------------------------------------------------------------------

\* capture.WindowInfo (Title and PID play no part)
WindowInfo(handle, rect, isHidden) ==
  [Handle |-> handle, Rect |-> rect, IsHidden |-> isHidden]

\* ToScreenBoundingBox that leaves Max where it was
ToScreenBoundingBoxMinOnly(m, w) ==
  Rectangle(Point(m.BoundingBox.Min.X + w.Rect.Min.X,
                  m.BoundingBox.Min.Y + w.Rect.Min.Y),
            m.BoundingBox.Max)

\* MatchResult.ToScreenCoordinates
ToScreenCoordinates(m, w) ==
  Point(w.Rect.Min.X + m.Location.X, w.Rect.Min.Y + m.Location.Y)

\* MatchResult.ToScreenBoundingBox
ToScreenBoundingBox(m, w) ==
  LET offsetX == w.Rect.Min.X
      offsetY == w.Rect.Min.Y
  IN  Rectangle(Point(m.BoundingBox.Min.X + offsetX,
                      m.BoundingBox.Min.Y + offsetY),
                Point(m.BoundingBox.Max.X + offsetX,
                      m.BoundingBox.Max.Y + offsetY))

\* window rectangles on the screen, some partly off its left edge
MapperRects ==
  {Rectangle(Point(x, y), Point(x + 4, y + 5)) :
     x \in {0 - 2, 0, 3}, y \in {0, 1}}

\* match results in window coordinates
MapperMatches ==
  {MatchResult(90, loc, F64One, size) :
     loc \in {ZeroPoint, Point(1, 2)}, size \in {Point(1, 1), Point(2, 3)}}
  \cup {NoMatchResult}

\* the matcher with some inputs and no call made
MatcherUnused ==
  /\ source = [Cols |-> AnySource[1], Rows |-> AnySource[2]]
  /\ template = [Cols |-> 1, Rows |-> 1]
  /\ literals = << 100, 100, 10 >>
  /\ config = MultiScaleConfig(literals, 70, 1)
  /\ MatcherAtRest

InitMapper ==
  /\ match \in MapperMatches
  /\ \E r \in MapperRects : windowInfo = WindowInfo(1, r, FALSE)
  /\ screenPoint = Nil
  /\ screenBox = Nil
  /\ MatcherUnused
  /\ CaptureAtRest
  /\ MoreAtRest

\* m.ToScreenCoordinates(windowInfo)
CallToScreenCoordinates ==
  /\ screenPoint = Nil
  /\ screenPoint' = Ref(ToScreenCoordinates(match, windowInfo))
  /\ UNCHANGED << match, windowInfo, screenBox, matcherVars, moreVars, captureVars >>

\* m.ToScreenBoundingBox(windowInfo)
CallToScreenBoundingBox ==
  /\ screenBox = Nil
  /\ screenBox' = Ref(ToScreenBoundingBox(match, windowInfo))
  /\ UNCHANGED << match, windowInfo, screenPoint, matcherVars, moreVars, captureVars >>

NextMapper ==
  \/ CallToScreenCoordinates
  \/ CallToScreenBoundingBox

SpecMapper == InitMapper /\ [][NextMapper]_vars

\* what the two conversions returned is the window-relative geometry moved by
\* windowInfo.Rect.Min and by nothing else
MappedByOffset ==
  /\ screenPoint # Nil =>
       /\ Deref(screenPoint).X - windowInfo.Rect.Min.X = match.Location.X
       /\ Deref(screenPoint).Y - windowInfo.Rect.Min.Y = match.Location.Y
  /\ screenBox # Nil =>
       /\ Deref(screenBox).Min.X - match.BoundingBox.Min.X = windowInfo.Rect.Min.X
       /\ Deref(screenBox).Min.Y - match.BoundingBox.Min.Y = windowInfo.Rect.Min.Y
       /\ Deref(screenBox).Max.X - match.BoundingBox.Max.X = windowInfo.Rect.Min.X
       /\ Deref(screenBox).Max.Y - match.BoundingBox.Max.Y = windowInfo.Rect.Min.Y
       /\ Dx(Deref(screenBox)) = Dx(match.BoundingBox)
       /\ Dy(Deref(screenBox)) = Dy(match.BoundingBox)

\* C13: ToScreenCoordinates minus the window's top-left corner is the match
\* location, ToScreenBoundingBox moves both corners of the bounding box by
\* that corner and so keeps its width and height, and neither call changes
\* the match result or the window info
C13_OffsetOnly ==
  [][MappedByOffset' /\ match' = match /\ windowInfo' = windowInfo]_vars

\* both conversions were made, for a window away from the screen origin and
\* a match away from the window origin
C13_Witness ==
  /\ screenPoint # Nil
  /\ screenBox # Nil
  /\ windowInfo.Rect.Min.X < 0
  /\ windowInfo.Rect.Min.Y > 0
  /\ match.Location # ZeroPoint
  /\ Dx(match.BoundingBox) # Dy(match.BoundingBox)

\* ------------------------------------------------------------------------
\* package utils: the logger
\* ------------------------------------------------------------------------

\* logOutput: the lines written so far, with this one if it passes the filter
LogOutput(level, levelName, message) ==
  IF ~enableLogging \/ level < currentLogLevel
  THEN logged
  ELSE Append(logged, [level |-> levelName, message |-> message])

\* utils.Warn
Warn(message) == LogOutput(WARN, "WARN", message)

\* ------------------------------------------------------------------------
\* package capture, Windows backend
\* ------------------------------------------------------------------------

RECT(left, top, right, bottom) ==
  [Left |-> left, Top |-> top, Right |-> right, Bottom |-> bottom]

Max2(a, b) == IF a > b THEN a ELSE b

\* image.Rect: a rectangle with its corners put in order
ImageRect(x0, y0, x1, y1) ==
  Rectangle(Point(Min2(x0, x1), Min2(y0, y1)), Point(Max2(x0, x1), Max2(y0, y1)))

\* window handles, and the windows a process can own as EnumWindows meets them
Handles == {1, 2}
WindowLists ==
  { << >>,
    << [Handle |-> 1, Visible |-> TRUE] >>,
    << [Handle |-> 1, Visible |-> FALSE] >>,
    << [Handle |-> 1, Visible |-> FALSE], [Handle |-> 2, Visible |-> TRUE] >> }

\* rectangles a window can have: two places on the screen and a collapsed one
OsRects == {RECT(0, 0, 4, 5), RECT(3, 1, 7, 6), RECT(3, 1, 3, 6)}

\* the first call of a strategy that can return 0, or "ok" when none does
PrintWindowOutcomes ==
  {"GetDC", "CreateCompatibleDC", "CreateCompatibleBitmap", "SelectObject",
   "PrintWindow", "ok"}
BitBltOutcomes ==
  {"GetDC", "CreateCompatibleDC", "CreateCompatibleBitmap", "SelectObject",
   "BitBlt", "ok"}
BitmapToImageOutcomes == {"GetDC", "GetDIBits", "ok"}

\* the calls whose failure is reported with the error of proc.Call
WithErrno == {"GetDC", "CreateCompatibleDC", "CreateCompatibleBitmap"}

\* the error returned when the named call returned 0: utils.WrapError of the
\* syscall error, or of nil where the code has no error at hand
FailureOf(callName) ==
  IF callName \in WithErrno
  THEN WrapError(Errno, callName)
  ELSE WrapError(NoError, callName)

\* what a capture call returns
Returned(img, e) == [img |-> img, err |-> e]

\* image.NewRGBA(image.Rect(0, 0, width, height))
NewRGBA(width, height) == [Bounds |-> ImageRect(0, 0, width, height)]

\* getWindowRect
getWindowRect(hwnd) ==
  LET rect == osRect[hwnd]
  IN  ImageRect(rect.Left, rect.Top, rect.Right, rect.Bottom)

\* isWindowVisible
isWindowVisible(hwnd) ==
  \E i \in 1 .. Len(osWindows) :
    osWindows[i].Handle = hwnd /\ osWindows[i].Visible

\* GetWindowsByPID, ret being what EnumWindows returns
GetWindowsByPID(ret) ==
  IF ret = 0
  THEN [windowInfos |-> << >>, err |-> WrapError(Errno, "EnumWindows failed")]
  ELSE [windowInfos |->
          [i \in 1 .. Len(osWindows) |->
             WindowInfo(osWindows[i].Handle,
                        getWindowRect(osWindows[i].Handle), FALSE)],
        err |-> NoError]

\* index of the first visible window of the list, 0 when none is visible
FirstVisible(list) ==
  LET visible == {i \in 1 .. Len(list) : isWindowVisible(list[i].Handle)}
  IN  IF visible = {} THEN 0
      ELSE CHOOSE i \in visible : \A j \in visible : i <= j

\* targetWindow of CaptureWindowByPID
TargetWindow(list) ==
  IF FirstVisible(list) # 0 THEN list[FirstVisible(list)] ELSE list[1]

\* InvalidSize that lets an empty rectangle through
InvalidSizeStrict(width, height) == width < 0 \/ height < 0

\* the size test of CaptureWindowByHandle
InvalidSize(width, height) == width <= 0 \/ height <= 0

\* AfterPrintWindow that goes on to BitBlt whatever PrintWindow returned
AfterPrintWindowAlwaysBitBlt(ret) == "bitblt"

\* what captureWindowWithPrintWindow runs after PrintWindow returned ret
AfterPrintWindow(ret) == IF ret = 0 THEN "bitblt" ELSE "toimage"

\* locals of CaptureWindowByHandle and of the strategy it runs
Frame(handle, includeHidden, rect, width, height) ==
  [handle |-> handle, IncludeHidden |-> includeHidden, rect |-> rect,
   width |-> width, height |-> height]

ZeroRECT == RECT(0, 0, 0, 0)

\* what GetWindowInfoByPID returns
InfoReturned(info, e) == [info |-> info, err |-> e]

\* GetWindowInfoByPID, ret being what EnumWindows returns
WindowInfoByPID(ret) ==
  LET got == GetWindowsByPID(ret)
      windowList == got.windowInfos
  IN  IF got.err # NoError
      THEN InfoReturned(Nil, WrapError(got.err, "failed to get windows by PID"))
      ELSE IF Len(windowList) = 0
      THEN InfoReturned(Nil, ErrWindowNotFound)
      ELSE IF FirstVisible(windowList) # 0
      THEN InfoReturned(Ref([windowList[FirstVisible(windowList)]
                               EXCEPT !.IsHidden = FALSE]), NoError)
      ELSE InfoReturned(Ref([windowList[1] EXCEPT !.IsHidden = TRUE]), NoError)

InitCapture ==
  /\ osWindows \in WindowLists
  /\ \E r \in OsRects :
       osRect = [h \in Handles |-> IF h = 1 THEN r ELSE RECT(0, 0, 4, 5)]
  /\ cpc = "idle"
  /\ call = Nil
  /\ retCapture = Nil
  /\ retInfo = Nil
  /\ attempts = << >>
  /\ pixelsRect = Nil
  /\ currentLogLevel = INFO
  /\ enableLogging = TRUE
  /\ logged = << >>
  /\ MatcherUnused
  /\ MapperAtRest
  /\ MoreAtRest

\* the user or the owning process moves or resizes one of the windows
MoveWindow ==
  /\ \E i \in 1 .. Len(osWindows), r \in OsRects :
       /\ r # osRect[osWindows[i].Handle]
       /\ osRect' = [osRect EXCEPT ![osWindows[i].Handle] = r]
  /\ UNCHANGED << osWindows, cpc, call, retCapture, retInfo, attempts,
                  pixelsRect, loggerVars, logged, matcherVars, moreVars, mapperVars >>

\* utils.SetLogLevel, called between two operations
SetLogLevel ==
  /\ cpc = "idle"
  /\ \E level \in LogLevels :
       /\ level # currentLogLevel
       /\ currentLogLevel' = level
  /\ UNCHANGED << osVars, cpc, call, retCapture, retInfo, attempts, pixelsRect,
                  enableLogging, logged, matcherVars, moreVars, mapperVars >>

\* utils.SetLoggingEnabled, called between two operations
SetLoggingEnabled ==
  /\ cpc = "idle"
  /\ \E enabled \in BOOLEAN :
       /\ enabled # enableLogging
       /\ enableLogging' = enabled
  /\ UNCHANGED << osVars, cpc, call, retCapture, retInfo, attempts, pixelsRect,
                  currentLogLevel, logged, matcherVars, moreVars, mapperVars >>

\* WindowsCapture.GetWindowInfoByPID
GetWindowInfoByPID ==
  /\ cpc = "idle"
  /\ \E ret \in {0, 1} : retInfo' = Ref(WindowInfoByPID(ret))
  /\ UNCHANGED << osVars, cpc, call, retCapture, attempts, pixelsRect,
                  loggerVars, logged, matcherVars, moreVars, mapperVars >>

\* WindowsCapture.CaptureWindowByPID up to its call of CaptureWindowByHandle
CaptureWindowByPID ==
  /\ cpc = "idle"
  /\ attempts' = << >>
  /\ pixelsRect' = Nil
  /\ logged' = << >>
  /\ \E ret \in {0, 1}, includeHidden \in BOOLEAN :
       LET got == GetWindowsByPID(ret)
           windowsByPID == got.windowInfos
       IN  IF got.err # NoError
           THEN /\ retCapture' =
                     Ref(Returned(Nil, WrapError(got.err,
                                                 "failed to get windowsByPID")))
                /\ UNCHANGED << cpc, call >>
           ELSE IF Len(windowsByPID) = 0
           THEN /\ retCapture' = Ref(Returned(Nil, ErrWindowNotFound))
                /\ UNCHANGED << cpc, call >>
           ELSE /\ retCapture' = Nil
                /\ cpc' = "byhandle"
                /\ call' = Ref(Frame(TargetWindow(windowsByPID).Handle,
                                     includeHidden, ZeroRECT, 0, 0))
  /\ UNCHANGED << osVars, retInfo, loggerVars, matcherVars, moreVars, mapperVars >>

\* WindowsCapture.CaptureWindowByHandle up to the strategy it chooses
CaptureWindowByHandle ==
  /\ cpc = "byhandle"
  /\ \E ret \in {0, 1} :
       LET f == Deref(call)
           rect == osRect[f.handle]
           width == rect.Right - rect.Left
           height == rect.Bottom - rect.Top
       IN  IF ret = 0
           THEN /\ retCapture' = Ref(Returned(Nil, FailureOf("GetWindowRect")))
                /\ cpc' = "idle"
                /\ UNCHANGED << call, attempts >>
           ELSE /\ call' = Ref(Frame(f.handle, f.IncludeHidden, rect, width, height))
                /\ attempts' = Append(attempts, "GetWindowRect")
                /\ IF InvalidSize(width, height)
                   THEN /\ retCapture' =
                             Ref(Returned(Nil, Errorf("invalid window size")))
                        /\ cpc' = "idle"
                   ELSE /\ retCapture' = retCapture
                        /\ cpc' = IF f.IncludeHidden THEN "printwindow"
                                  ELSE "bitblt"
  /\ UNCHANGED << osVars, retInfo, pixelsRect, loggerVars, logged,
                  matcherVars, moreVars, mapperVars >>

\* captureWindowWithPrintWindow up to its tail call
captureWindowWithPrintWindow ==
  /\ cpc = "printwindow"
  /\ \E outcome \in PrintWindowOutcomes :
       LET ret == IF outcome = "PrintWindow" THEN 0 ELSE 1
       IN  IF outcome \notin {"PrintWindow", "ok"}
           THEN /\ retCapture' = Ref(Returned(Nil, FailureOf(outcome)))
                /\ cpc' = "idle"
                /\ attempts' = Append(attempts, "PrintWindow")
                /\ UNCHANGED << pixelsRect, logged >>
           ELSE /\ cpc' = AfterPrintWindow(ret)
                /\ attempts' = attempts \o (IF ret = 0
                                            THEN << "PrintWindow", "refused" >>
                                            ELSE << "PrintWindow" >>)
                /\ logged' = IF ret = 0
                             THEN Warn("PrintWindow failed, trying BitBlt")
                             ELSE logged
                /\ pixelsRect' = IF ret = 0 THEN pixelsRect
                                 ELSE Ref(osRect[Deref(call).handle])
                /\ UNCHANGED retCapture
  /\ UNCHANGED << osVars, call, retInfo, loggerVars, matcherVars, moreVars, mapperVars >>

\* captureWindowWithBitBlt up to its tail call
captureWindowWithBitBlt ==
  /\ cpc = "bitblt"
  /\ attempts' = Append(attempts, "BitBlt")
  /\ \E outcome \in BitBltOutcomes :
       IF outcome = "ok"
       THEN /\ cpc' = "toimage"
            /\ pixelsRect' = Ref(osRect[Deref(call).handle])
            /\ UNCHANGED retCapture
       ELSE /\ retCapture' = Ref(Returned(Nil, FailureOf(outcome)))
            /\ cpc' = "idle"
            /\ UNCHANGED pixelsRect
  /\ UNCHANGED << osVars, call, retInfo, loggerVars, logged, matcherVars, moreVars,
                  mapperVars >>

\* bitmapToImage, and the return of the capture call
bitmapToImage ==
  /\ cpc = "toimage"
  /\ cpc' = "idle"
  /\ \E outcome \in BitmapToImageOutcomes :
       retCapture' =
         Ref(IF outcome = "ok"
             THEN Returned(Ref(NewRGBA(Deref(call).width, Deref(call).height)),
                           NoError)
             ELSE Returned(Nil, FailureOf(outcome)))
  /\ UNCHANGED << osVars, call, retInfo, attempts, pixelsRect, loggerVars,
                  logged, matcherVars, moreVars, mapperVars >>

NextCapture ==
  \/ MoveWindow
  \/ SetLogLevel
  \/ SetLoggingEnabled
  \/ GetWindowInfoByPID
  \/ CaptureWindowByPID
  \/ CaptureWindowByHandle
  \/ captureWindowWithPrintWindow
  \/ captureWindowWithBitBlt
  \/ bitmapToImage

SpecCapture == InitCapture /\ [][NextCapture]_vars

\* ------------------------------------------------------------------------
\* Properties of the capture backend
\* ------------------------------------------------------------------------

Range(seq) == {seq[i] : i \in 1 .. Len(seq)}

\* a capture call has returned
CaptureDone == cpc = "idle" /\ retCapture # Nil
CaptureRet == Deref(retCapture)

\* C14: every return of a capture call carries exactly one of a non-nil image
\* and a non-nil error
C14_ImageOrError ==
  CaptureDone => ((CaptureRet.img # Nil) # (CaptureRet.err # NoError))

\* the histories a capture call with IncludeHidden can have: the primary
\* strategy once, then the fallback once and only after a refusal
HiddenHistories ==
  { << >>,
    << "GetWindowRect" >>,
    << "GetWindowRect", "PrintWindow" >>,
    << "GetWindowRect", "PrintWindow", "refused" >>,
    << "GetWindowRect", "PrintWindow", "refused", "BitBlt" >> }

\* C15: in a capture call with IncludeHidden the PrintWindow strategy is tried
\* at most once and the BitBlt strategy at most once, BitBlt only after
\* PrintWindow was refused; once BitBlt is tried nothing else is, so the call
\* ends with its outcome; a call starts with fresh locals and an empty history
C15_StateMachine ==
  /\ (call # Nil /\ Deref(call).IncludeHidden) =>
       /\ attempts \in HiddenHistories
       /\ Count(attempts, "PrintWindow") <= 1
       /\ Count(attempts, "BitBlt") <= 1
       /\ "BitBlt" \in Range(attempts) =>
            /\ "refused" \in Range(attempts)
            /\ cpc \in {"toimage", "idle"}
       /\ cpc = "bitblt" => attempts[Len(attempts)] = "refused"
  /\ cpc = "byhandle" =>
       /\ attempts = << >>
       /\ Deref(call).rect = ZeroRECT
       /\ Deref(call).width = 0
       /\ Deref(call).height = 0
       /\ retCapture = Nil

\* a call with IncludeHidden ended with the image the fallback delivered
C15_Witness ==
  /\ CaptureDone
  /\ call # Nil
  /\ Deref(call).IncludeHidden
  /\ attempts = << "GetWindowRect", "PrintWindow", "refused", "BitBlt" >>
  /\ CaptureRet.img # Nil

\* C16: a capture call that tried the PrintWindow strategy and ends without an
\* image has tried the BitBlt strategy first
C16_FallbackBeforeFailure ==
  (CaptureDone /\ CaptureRet.img = Nil /\ "PrintWindow" \in Range(attempts))
    => "BitBlt" \in Range(attempts)

\* C17: when a capture call falls back to BitBlt after a refused PrintWindow,
\* a WARN line has been written, whatever the logger settings
C17_FallbackWarned ==
  "refused" \in Range(attempts) =>
    \E i \in 1 .. Len(logged) : logged[i].level = "WARN"

\* ------------------------------------------------------------------------
\* package capture, macOS backend
\* ------------------------------------------------------------------------

\* C.getWindowIDByPID: the id of the first on-screen window of the process,
\* -1 when it has none
getWindowIDByPID ==
  LET onScreen == {i \in 1 .. Len(osWindows) : osWindows[i].Visible}
  IN  IF onScreen = {} THEN 0 - 1
      ELSE osWindows[CHOOSE i \in onScreen : \A j \in onScreen : i <= j].Handle

\* logOutput on the lines written so far in the call
LogOutputTo(log, level, levelName, message) ==
  IF ~enableLogging \/ level < currentLogLevel
  THEN log
  ELSE Append(log, [level |-> levelName, message |-> message])

\* utils.Debug
Debug(log, message) == LogOutputTo(log, DEBUG, "DEBUG", message)

\* utils.Info
Info(log, message) == LogOutputTo(log, INFO, "INFO", message)

\* the images image.Decode can read from the file of the screencapture
\* command: their size is the tool's choice (shadow, scale factor), it is
\* never taken from the bounds of the window
DecodedImages ==
  {NewRGBA(size[1], size[2]) : size \in {<< 1, 1 >>, << 4, 5 >>, << 8, 10 >>}}

\* the temporary file after the screencapture command ended: absent, empty,
\* not an image, or an image
TempFiles ==
  {Nil, Ref([Size |-> 0, image |-> Nil]), Ref([Size |-> 1, image |-> Nil])}
    \cup {Ref([Size |-> 1, image |-> Ref(img)]) : img \in DecodedImages}

\* the error of os.Stat and os.Open
PathError == Errorf("no such file or directory")

\* the error of image.Decode
ErrFormat == Errorf("image: unknown format")

\* the locals of DarwinCapture.CaptureWindowByPID while the screencapture
\* command runs and after it: the window, the result of system() == 0, and
\* the temporary file
DarwinFrame(windowID, success, file) ==
  [handle |-> windowID, success |-> success, file |-> file]

\* DarwinCapture.CaptureWindowByPID from the return of C.captureWindowByID to
\* its own return; opened says whether os.Open succeeds
DarwinCaptured(frame, opened) ==
  IF ~frame.success
  THEN Returned(Nil, WrapError(ErrCaptureFailure, "Core Graphics capture failed"))
  ELSE IF frame.file = Nil
  THEN Returned(Nil, WrapError(PathError, "capture file not created"))
  ELSE IF Deref(frame.file).Size = 0
  THEN Returned(Nil, WrapError(ErrCaptureFailure, "capture file is empty"))
  ELSE IF ~opened
  THEN Returned(Nil, WrapError(PathError, "cannot open capture file"))
  ELSE IF Deref(frame.file).image = Nil
  THEN Returned(Nil, WrapError(ErrFormat, "image decoding failed"))
  ELSE Returned(Deref(frame.file).image, NoError)

\* the rectangle C.getWindowInfo reports: (x, y) and (x + width, y + height)
DarwinRect(windowID) ==
  LET rect == osRect[windowID]
      width == rect.Right - rect.Left
      height == rect.Bottom - rect.Top
  IN  Rectangle(Point(rect.Left, rect.Top),
                Point(rect.Left + width, rect.Top + height))

\* DarwinCapture.GetWindowInfoByPID; valid and info are what C.isWindowValid
\* and C.getWindowInfo answer
DarwinWindowInfoByPID(valid, info) ==
  LET windowID == getWindowIDByPID
  IN  IF windowID = 0 - 1
      THEN InfoReturned(Nil, WrapError(ErrWindowNotFound, "no window of PID"))
      ELSE IF ~valid
      THEN InfoReturned(Nil, WrapError(ErrWindowNotFound, "window closed"))
      ELSE IF ~info
      THEN InfoReturned(Nil, WrapError(ErrCaptureFailure, "no window details"))
      ELSE InfoReturned(Ref(WindowInfo(windowID, DarwinRect(windowID), FALSE)),
                        NoError)

\* the macOS build, no call made yet
InitDarwinCapture ==
  /\ osWindows \in WindowLists
  /\ \E r \in OsRects :
       osRect = [h \in Handles |-> IF h = 1 THEN r ELSE RECT(0, 0, 4, 5)]
  /\ cpc = "idle"
  /\ call = Nil
  /\ retCapture = Nil
  /\ retInfo = Nil
  /\ attempts = << >>
  /\ pixelsRect = Nil
  /\ currentLogLevel \in {DEBUG, INFO, ERROR}
  /\ enableLogging = TRUE
  /\ logged = << >>
  /\ platform = "darwin"
  /\ screen = [width |-> 0, height |-> 0]
  /\ mcall = Nil
  /\ events = << >>
  /\ retMouse = Nil
  /\ parked = Nil
  /\ MatcherUnused
  /\ MapperAtRest
  /\ ProcessAtRest
  /\ FindAtRest
  /\ ThreadsAtRest

\* DarwinCapture.GetWindowInfoByPID
DarwinGetWindowInfoByPID ==
  /\ cpc = "idle"
  /\ retInfo = Nil
  /\ \E valid \in BOOLEAN, info \in BOOLEAN :
       LET ret == DarwinWindowInfoByPID(valid, info)
       IN  /\ retInfo' = Ref(ret)
           /\ logged' = IF ret.err = NoError
                        THEN Debug(logged, "window info")
                        ELSE logged
  /\ UNCHANGED << osVars, cpc, call, retCapture, attempts, pixelsRect,
                  loggerVars, matcherVars, moreVars, mapperVars >>

\* DarwinCapture.CaptureWindowByPID up to system() in C.captureWindowByID:
\* the screencapture command is started and the call waits for it
DarwinCaptureWindowByPID ==
  /\ cpc = "idle"
  /\ retCapture = Nil
  /\ \E valid \in BOOLEAN, info \in BOOLEAN :
       LET windowID == getWindowIDByPID
           foundLog == Debug(logged, "found the window ID of the PID")
       IN  IF windowID = 0 - 1
           THEN /\ retCapture' = Ref(Returned(Nil, WrapError(ErrWindowNotFound,
                                                             "no window of PID")))
                /\ UNCHANGED << cpc, call, attempts, logged >>
           ELSE IF ~valid
           THEN /\ retCapture' = Ref(Returned(Nil, WrapError(ErrWindowNotFound,
                                                             "window closed")))
                /\ logged' = foundLog
                /\ UNCHANGED << cpc, call, attempts >>
           ELSE /\ cpc' = "screencapture"
                /\ call' = Ref(DarwinFrame(windowID, FALSE, Nil))
                /\ attempts' = Append(attempts, "screencapture")
                /\ logged' =
                     IF info
                     THEN Debug(foundLog, "window info")
                     ELSE LogOutputTo(foundLog, WARN, "WARN",
                                      "no window info, capturing anyway")
                /\ UNCHANGED retCapture
  /\ UNCHANGED << osVars, retInfo, pixelsRect, loggerVars, matcherVars,
                  moreVars, mapperVars >>

\* the screencapture command ends: system() has its exit status and the
\* temporary file is what the command left
captureWindowByID ==
  /\ cpc = "screencapture"
  /\ cpc' = "captured"
  /\ \E success \in BOOLEAN, file \in TempFiles :
       call' = Ref(DarwinFrame(Deref(call).handle, success, file))
  /\ UNCHANGED << osVars, retCapture, retInfo, attempts, pixelsRect,
                  loggerVars, logged, matcherVars, moreVars, mapperVars >>

\* DarwinCapture.CaptureWindowByPID after the wait: the file is checked, read
\* and decoded, and the call returns
DarwinCaptureReturn ==
  /\ cpc = "captured"
  /\ cpc' = "idle"
  /\ \E opened \in BOOLEAN :
       LET ret == DarwinCaptured(Deref(call), opened)
       IN  /\ retCapture' = Ref(ret)
           /\ logged' = IF ret.err = NoError
                        THEN Info(logged, "captured the window of the PID")
                        ELSE logged
  /\ UNCHANGED << osVars, call, retInfo, attempts, pixelsRect, loggerVars,
                  matcherVars, moreVars, mapperVars >>

NextDarwinCapture ==
  \/ MoveWindow
  \/ DarwinGetWindowInfoByPID
  \/ DarwinCaptureWindowByPID
  \/ captureWindowByID
  \/ DarwinCaptureReturn

SpecDarwinCapture == InitDarwinCapture /\ [][NextDarwinCapture]_vars

C19_RectWithPixels ==
  (/\ CaptureDone
   /\ CaptureRet.img # Nil
   /\ retInfo # Nil
   /\ Deref(retInfo).info # Nil
   /\ Deref(Deref(retInfo).info).Handle = Deref(call).handle)
    => LET at == Deref(pixelsRect)
       IN  Deref(Deref(retInfo).info).Rect =
             ImageRect(at.Left, at.Top, at.Right, at.Bottom)

\* C20: a returned image has the width and height, both positive, of the
\* rectangle read in the same call; a rectangle read with a non-positive
\* width or height ends the call with an error before any strategy is tried
C20_ImageDimensions ==
  /\ (CaptureDone /\ CaptureRet.img # Nil) =>
       LET img == Deref(CaptureRet.img)
           rect == Deref(call).rect
       IN  /\ Dx(img.Bounds) = rect.Right - rect.Left
           /\ Dy(img.Bounds) = rect.Bottom - rect.Top
           /\ Dx(img.Bounds) > 0
           /\ Dy(img.Bounds) > 0
           /\ img.Bounds.Min = ZeroPoint
  /\ (/\ "GetWindowRect" \in Range(attempts)
      /\ \/ Deref(call).rect.Right - Deref(call).rect.Left <= 0
         \/ Deref(call).rect.Bottom - Deref(call).rect.Top <= 0) =>
       /\ attempts = << "GetWindowRect" >>
       /\ CaptureDone
       /\ CaptureRet.img = Nil
       /\ CaptureRet.err # NoError

\* the image of a hidden window came back through the fallback, while a
\* collapsed window had been refused before
C20_Witness ==
  /\ CaptureDone
  /\ CaptureRet.img # Nil
  /\ "BitBlt" \in Range(attempts)
  /\ ~isWindowVisible(Deref(call).handle)
  /\ Dx(Deref(CaptureRet.img).Bounds) = 4
  /\ Dy(Deref(CaptureRet.img).Bounds) = 5

\* ------------------------------------------------------------------------
\* The two searches side by side
\* ------------------------------------------------------------------------

\* C29: with a positive threshold already, on the same source, template and
\* config the list of MultiScaleTemplateMatchingAll is empty exactly when the
\* best match has Similarity 0, and otherwise its first entry has the
\* Similarity of the best match
C29_BestAllAgree ==
  (retBest # Nil /\ retAll # Nil /\ config.Threshold > 0) =>
    /\ (AllRet = << >>) <=> (BestRet.Similarity = 0)
    /\ (AllRet # << >>) => (AllRet[1].Similarity = BestRet.Similarity)

\* ------------------------------------------------------------------------
\* CompareImages: the single-scale methods next to the multi-scale one
\* ------------------------------------------------------------------------

\* the error of gocv.NewMatFromBytes
ErrNewMat == Errorf("NewMatFromBytes")

\* the values gocv.CompareHist reports with HistCmpCorrel, a correlation in
\* [-1, 1], in hundredths
HistogramVals == ScoreVals \cup {0 - 20}

\* the mean key point positions featureMatching can compute
FeatureLocations == {ZeroPoint, Point(1, 2)}

\* the MatchResult of templateMatching
TemplateMatchingResult(maxVal, maxLoc, tmpl) ==
  [Similarity |-> maxVal,
   Location |-> maxLoc,
   Confidence |-> maxVal,
   Method |-> TemplateMatching,
   Scale |-> F64One,
   BoundingBox |-> Rectangle(maxLoc, Point(maxLoc.X + tmpl.Cols,
                                           maxLoc.Y + tmpl.Rows))]

\* the MatchResult of featureMatching when a descriptor set is empty or the
\* matcher finds no match: Scale and BoundingBox are left at their zero values
FeatureNoMatchResult ==
  [Similarity |-> 0,
   Location |-> ZeroPoint,
   Confidence |-> 0,
   Method |-> FeatureMatching,
   Scale |-> LZero,
   BoundingBox |-> ZeroRectangle]

\* the MatchResult of featureMatching, histogramComparison and
\* structuralSimilarity at their last return
WholeImageResult(similarity, location, m) ==
  [Similarity |-> similarity,
   Location |-> location,
   Confidence |-> similarity,
   Method |-> m,
   Scale |-> F64One,
   BoundingBox |-> ZeroRectangle]

\* CompareImages has not been called yet
NotCompared == pc = "idle" /\ retBest = Nil /\ err = NoError

\* CompareImages when imageToMat fails on one of the two images
imageToMatFails ==
  /\ UNCHANGED others
  /\ NotCompared
  /\ err' = WrapError(ErrNewMat, "convert image failed")
  /\ UNCHANGED << pc, inputs, locals, retBest, retAll, corr, traceBest, traceAll >>

\* CompareImages with TemplateMatching, or with a method the switch does not
\* name: the template is correlated as it is
templateMatching ==
  /\ UNCHANGED others
  /\ NotCompared
  /\ LET size == Point(template.Cols, template.Rows)
     IN  \E maxVal \in ScoreVals, maxLoc \in MaxLocs(source, size) :
           /\ Correlate(size, maxVal, maxLoc)
           /\ retBest' = Ref(TemplateMatchingResult(maxVal, maxLoc, template))
           /\ traceBest' = Record(traceBest,
                                  Iteration(F64One, size, TRUE, maxVal, maxLoc))
  /\ UNCHANGED << pc, inputs, locals, retAll, err, traceAll >>

\* CompareImages with FeatureMatching
featureMatching ==
  /\ UNCHANGED others
  /\ NotCompared
  /\ \/ retBest' = Ref(FeatureNoMatchResult)
     \/ \E similarity \in ScoreVals, location \in FeatureLocations :
          retBest' = Ref(WholeImageResult(similarity, location, FeatureMatching))
  /\ UNCHANGED << pc, inputs, locals, retAll, err, corr, traceBest, traceAll >>

\* CompareImages with HistogramComparison
histogramComparison ==
  /\ UNCHANGED others
  /\ NotCompared
  /\ \E similarity \in HistogramVals :
       retBest' = Ref(WholeImageResult(similarity, ZeroPoint, HistogramComparison))
  /\ UNCHANGED << pc, inputs, locals, retAll, err, corr, traceBest, traceAll >>

\* CompareImages with StructuralSimilarity
structuralSimilarity ==
  /\ UNCHANGED others
  /\ NotCompared
  /\ \E similarity \in ScoreVals :
       retBest' = Ref(WholeImageResult(Max2(0, similarity), ZeroPoint,
                                       StructuralSimilarity))
  /\ UNCHANGED << pc, inputs, locals, retAll, err, corr, traceBest, traceAll >>

\* the switch of CompareImages
CompareImages ==
  \/ imageToMatFails
  \/ templateMatching
  \/ featureMatching
  \/ histogramComparison
  \/ structuralSimilarity
  \/ CallBest
  \/ BestSkip
  \/ BestEval
  \/ BestReturn

InitCompare ==
  /\ source = [Cols |-> AnySource[1], Rows |-> AnySource[2]]
  /\ \E t \in TemplateSizes : template = [Cols |-> t[1], Rows |-> t[2]]
  /\ literals \in ScaleRanges
  /\ \E th \in ThresholdVals : config = MultiScaleConfig(literals, th, MaxResultsCap)
  /\ MatcherAtRest
  /\ CaptureAtRest
  /\ MapperAtRest
  /\ MoreAtRest

NextCompare ==
  \/ CompareImages
  \/ CallAll
  \/ AllSkip
  \/ AllEval
  \/ AllReturn

SpecCompare == InitCompare /\ [][NextCompare]_vars

\* CompareImages returned a result
Compared == retBest # Nil /\ err = NoError

\* C24: every result CompareImages returns for a method other than
\* MultiScaleTemplate has Scale 1.0, on every return path, and so has the
\* multi-scale result with Similarity 0
C24_SingleScaleOne ==
  Compared =>
    /\ BestRet.Method # MultiScaleTemplate => BestRet.Scale = F64One
    /\ (BestRet.Method = MultiScaleTemplate /\ BestRet.Similarity = 0)
         => BestRet.Scale = F64One

\* the fields of a result are those of one correlated iteration of the history:
\* the box starts at the location and has the size correlated at the scale
Structured(r, tr) ==
  /\ r.BoundingBox.Min = r.Location
  /\ r.Confidence = r.Similarity
  /\ \E i \in Evals(tr) :
       /\ tr[i].scale = r.Scale
       /\ tr[i].size = BoxSize(r)
       /\ tr[i].similarity = r.Similarity
       /\ tr[i].maxLoc = r.Location

\* C25: a result of template matching or of the multi-scale matcher with
\* nonzero Similarity has BoundingBox.Min = Location, a box of the size of the
\* template correlated at its Scale, and Confidence = Similarity: Similarity,
\* Location, Scale and box all come from the same scale
C25_BoxStructure ==
  /\ (/\ Compared
      /\ BestRet.Method \in {TemplateMatching, MultiScaleTemplate}
      /\ BestRet.Similarity # 0) => Structured(BestRet, traceBest)
  /\ retAll # Nil =>
       \A i \in 1..Len(AllRet) :
         AllRet[i].Similarity # 0 => Structured(AllRet[i], traceAll)

\* the multi-scale best match was found at a scale other than 1.0 away from
\* the origin, after a scale with another size had scored less
C25_Witness ==
  /\ Compared
  /\ BestRet.Method = MultiScaleTemplate
  /\ BestRet.Similarity # 0
  /\ BestRet.Scale # F64One
  /\ BestRet.Location # ZeroPoint
  /\ \E i, j \in Evals(traceBest) :
       /\ i < j
       /\ traceBest[j].scale = BestRet.Scale
       /\ traceBest[i].size # traceBest[j].size
       /\ traceBest[i].similarity < traceBest[j].similarity

\* ------------------------------------------------------------------------
\* package process (Windows backend)
\* ------------------------------------------------------------------------

\* longest process table of the inputs
MaxProcesses == 3

ExactMatch == 0
FuzzyMatch == 1

ErrProcessNotFound == Errorf("process not found")

\* a string is the sequence of its bytes (ASCII)
\* ToLower on ASCII text
ToLower(str) ==
  [i \in 1..Len(str) |-> IF str[i] >= 65 /\ str[i] <= 90 THEN str[i] + 32
                         ELSE str[i]]

\* strings.EqualFold on ASCII text
EqualFold(a, b) == ToLower(a) = ToLower(b)

\* strings.Contains
Contains(str, substr) ==
  \E k \in 0 .. (Len(str) - Len(substr)) :
    \A i \in 1..Len(substr) : str[k + i] = substr[i]

\* ".exe"
DotExe == << 46, 101, 120, 101 >>

\* "ab.exe", "Ab", "cab.exe", "x"
ProcessNames == {<< 97, 98 >> \o DotExe, << 65, 98 >>,
                 << 99, 97, 98 >> \o DotExe, << 120 >>}

\* "ab", "AB.exe", "b.", "zz"
SearchNames == {<< 97, 98 >>, << 65, 66 >> \o DotExe, << 98, 46 >>,
                << 122, 122 >>}

\* the modes a caller can pass: the two named ones and a value that is neither
MatchModes == {ExactMatch, FuzzyMatch, 2}

\* th32ProcessID of the i-th entry of a snapshot: distinct, in no order
PIDOf(i) == 4 * ((3 * i) % 7) + 4

ProcessInfo(pid, name) == [PID |-> pid, Name |-> name]

\* the process tables of the inputs
ProcessTables ==
  UNION {{[i \in 1..n |-> ProcessInfo(PIDOf(i), names[i])] :
            names \in [1..n -> ProcessNames]} : n \in 1..MaxProcesses}

\* the test of GetProcessByName on one process
IsMatch(proc, name, mode) ==
  CASE mode = ExactMatch ->
         EqualFold(proc.Name, name) \/ EqualFold(proc.Name, name \o DotExe)
    [] mode = FuzzyMatch -> Contains(ToLower(proc.Name), ToLower(name))
    [] OTHER -> FALSE

\* FirstPID taking the last process of the list
LastPID(procs) == procs[Len(procs)].PID

\* processes[0].PID
FirstPID(procs) == procs[1].PID

\* the values a lookup returns: by the function, a PID, a list of PIDs or a
\* list of processes, with the error
Looked(pid, pids, procs, e) == [pid |-> pid, pids |-> pids, procs |-> procs, err |-> e]

\* what the failure of ListAllProcesses makes the lookup return
LookupFailed(fn, e) ==
  LET byName == WrapError(e, "failed to list all processes")
  IN  IF fn = "GetProcessByName"
      THEN Looked(0, Nil, Nil, byName)
      ELSE Looked(0, Nil, Nil, WrapError(byName, "failed to get process"))

\* what the lookup returns once GetProcessByName has its result
LookupDone(fn, result) ==
  CASE fn = "GetProcessByName" -> Looked(0, Nil, result, NoError)
    [] fn = "GetProcessPIDByName" ->
         IF Len(result) = 0 THEN Looked(0, Nil, Nil, ErrProcessNotFound)
         ELSE Looked(FirstPID(result), Nil, Nil, NoError)
    [] fn = "GetAllProcessPIDsByName" ->
         IF Len(result) = 0 THEN Looked(0, Nil, Nil, ErrProcessNotFound)
         ELSE Looked(0, [i \in 1..Len(result) |-> result[i].PID], Nil, NoError)

LookupFunctions == {"GetProcessByName", "GetProcessPIDByName",
                    "GetAllProcessPIDsByName"}

InitProcess ==
  /\ procTable \in ProcessTables
  /\ ppc = "idle"
  /\ procCall = Nil
  /\ processes = << >>
  /\ found = << >>
  /\ visited = 0
  /\ retLookup = Nil
  /\ MatcherUnused
  /\ CaptureAtRest
  /\ MapperAtRest
  /\ MouseAtRest
  /\ FindAtRest
  /\ ThreadsAtRest

\* a call of GetProcessByName, GetProcessPIDByName or GetAllProcessPIDsByName
CallLookup ==
  /\ ppc = "idle"
  /\ \E fn \in LookupFunctions, name \in SearchNames, mode \in MatchModes :
       procCall' = Ref([fn |-> fn, name |-> name, mode |-> mode])
  /\ ppc' = "list"
  /\ processes' = << >>
  /\ found' = << >>
  /\ visited' = 0
  /\ retLookup' = Nil
  /\ UNCHANGED << procTable, matcherVars, captureVars, mapperVars,
                  mouseVars, findVars, threads >>

\* ListAllProcesses fails: no snapshot, or no first process in it
ListAllProcessesFails ==
  /\ ppc = "list"
  /\ \E e \in {WrapError(Errno, "failed to create process snapshot"),
               Errorf("failed to get first process")} :
       retLookup' = Ref(LookupFailed(Deref(procCall).fn, e))
  /\ ppc' = "idle"
  /\ UNCHANGED << procTable, procCall, processes, found, visited,
                  matcherVars, captureVars, mapperVars,
                  mouseVars, findVars, threads >>

\* ListAllProcesses walks the snapshot
ListAllProcesses ==
  /\ ppc = "list"
  /\ processes' = procTable
  /\ ppc' = "filter"
  /\ UNCHANGED << procTable, procCall, found, visited, retLookup,
                  matcherVars, captureVars, mapperVars,
                  mouseVars, findVars, threads >>

\* one iteration of the loop of GetProcessByName
FilterProcess ==
  /\ ppc = "filter"
  /\ visited < Len(processes)
  /\ LET proc == processes[visited + 1]
     IN  found' = IF IsMatch(proc, Deref(procCall).name, Deref(procCall).mode)
                  THEN Append(found, proc)
                  ELSE found
  /\ visited' = visited + 1
  /\ UNCHANGED << procTable, ppc, procCall, processes, retLookup,
                  matcherVars, captureVars, mapperVars,
                  mouseVars, findVars, threads >>

\* GetProcessByName returns, and so does the convenience function around it
LookupReturn ==
  /\ ppc = "filter"
  /\ visited = Len(processes)
  /\ retLookup' = Ref(LookupDone(Deref(procCall).fn, found))
  /\ ppc' = "idle"
  /\ UNCHANGED << procTable, procCall, processes, found, visited,
                  matcherVars, captureVars, mapperVars,
                  mouseVars, findVars, threads >>

NextProcess ==
  \/ CallLookup
  \/ ListAllProcessesFails
  \/ ListAllProcesses
  \/ FilterProcess
  \/ LookupReturn

SpecProcess == InitProcess /\ [][NextProcess]_vars

\* positions of the process table whose process the lookup is for
Wanted == {i \in 1..Len(procTable) :
             IsMatch(procTable[i], Deref(procCall).name, Deref(procCall).mode)}

\* the lookup has returned without a listing failure
Listed(fn) ==
  /\ retLookup # Nil
  /\ Deref(procCall).fn = fn
  /\ visited = Len(procTable)

\* C27: GetProcessPIDByName returns the PID of the first matching process, in
\* the order of GetProcessByName, which is the order of the process table,
\* and PID 0 with ErrProcessNotFound when no process matches;
\* GetAllProcessPIDsByName returns the PIDs of all matches in that order, or
\* ErrProcessNotFound when there is none
C27_NameToPID ==
  /\ Listed("GetProcessPIDByName") =>
       LET r == Deref(retLookup)
       IN  IF Wanted = {}
           THEN r.pid = 0 /\ IsError(r.err, ErrProcessNotFound)
           ELSE /\ r.err = NoError
                /\ \E i \in Wanted : /\ r.pid = procTable[i].PID
                                     /\ \A j \in Wanted : i <= j
  /\ Listed("GetAllProcessPIDsByName") =>
       LET r == Deref(retLookup)
       IN  IF Wanted = {}
           THEN r.pids = Nil /\ IsError(r.err, ErrProcessNotFound)
           ELSE /\ r.err = NoError
                /\ Len(r.pids) = Cardinality(Wanted)
                /\ \A k \in 1..Len(r.pids) :
                     \E i \in Wanted :
                       /\ r.pids[k] = procTable[i].PID
                       /\ Cardinality({j \in Wanted : j < i}) = k - 1

\* a fuzzy lookup met a process that does not match before two that do, the
\* first of them written in another case than the name asked for
C27_Witness ==
  /\ Listed("GetProcessPIDByName")
  /\ Deref(procCall).mode = FuzzyMatch
  /\ Cardinality(Wanted) = 2
  /\ 1 \notin Wanted
  /\ procTable[2].Name # ToLower(procTable[2].Name)
  /\ Deref(retLookup).pid = procTable[2].PID

\* ------------------------------------------------------------------------
\* package mouse
\* ------------------------------------------------------------------------

\* width and height of the screen of the inputs
ScreenWidth == 4
ScreenHeight == 3

LeftButton == 0
RightButton == 1
MiddleButton == 2

ClickOptions(button, delay, randomDelay, restoreFocus) ==
  [Button |-> button, Delay |-> delay, RandomDelay |-> randomDelay,
   RestoreFocus |-> restoreFocus]

DefaultClickOptions == ClickOptions(LeftButton, 50, FALSE, FALSE)

\* the options a caller passes: nil, the default, no delay, jitter with focus
\* restored, and a button that is none of the three
OptionsOf ==
  {Nil, Ref(DefaultClickOptions), Ref(ClickOptions(RightButton, 0, FALSE, FALSE)),
   Ref(ClickOptions(MiddleButton, 50, TRUE, TRUE)),
   Ref(ClickOptions(3, 50, FALSE, FALSE))}

\* screen coordinates a caller passes: inside the screen, on and beyond its edges
Coordinates == {Point(x, y) : x \in (0 - 1) .. ScreenWidth, y \in (0 - 1) .. ScreenHeight}

\* what the OS reports as the screen size (0 x 0 when GetSystemMetrics fails)
Screens == {[width |-> 0, height |-> 0],
            [width |-> ScreenWidth, height |-> ScreenHeight]}

\* window handles: none, a top-level window and a child of it
NoWindow == 0
ParentWindow == 5
ChildWindow == 6

\* screen position of the client area of a window
ClientOrigin(hwnd) == IF hwnd = ChildWindow THEN Point(2, 1) ELSE Point(1, 0)

\* how the OS calls of one mouse call come out
AllFine ==
  [getCursorPos |-> TRUE, sendInput |-> TRUE, setCursorPos |-> TRUE,
   foreground |-> ParentWindow, pre |-> 5, post |-> 9, create |-> "ok",
   windowFromPoint |-> ChildWindow]

OsOutcomes ==
  {AllFine,
   [AllFine EXCEPT !.getCursorPos = FALSE],
   [AllFine EXCEPT !.sendInput = FALSE],
   [AllFine EXCEPT !.setCursorPos = FALSE],
   [AllFine EXCEPT !.foreground = NoWindow, !.pre = 14, !.post = 3],
   [AllFine EXCEPT !.create = "nodown"],
   [AllFine EXCEPT !.create = "noup"],
   [AllFine EXCEPT !.windowFromPoint = NoWindow]}

\* one OS call that synthesizes input, moves or reads the cursor, changes the
\* focus or pauses the calling thread
Ev(kind, x, y, arg) == [kind |-> kind, x |-> x, y |-> y, arg |-> arg]
Sleep(ms) == Ev("sleep", 0, 0, ms)

If(cond, evs) == IF cond THEN evs ELSE << >>

\* what a click function has done and the error it returns
Clicked(evs, e) == [events |-> evs, err |-> e]

\* GetScreenSize
GetScreenSize(scr) ==
  IF scr.width <= 0 \/ scr.height <= 0
  THEN [width |-> 0, height |-> 0, err |-> Errorf("invalid screen dimensions")]
  ELSE [width |-> scr.width, height |-> scr.height, err |-> NoError]

\* IsValidCoordinate with <= for < against the screen size
IsValidCoordinateInclusive(pf, x, y, scr) ==
  IF pf = "windows" /\ GetScreenSize(scr).err # NoError THEN FALSE
  ELSE x >= 0 /\ y >= 0 /\ x <= scr.width /\ y <= scr.height

\* IsValidCoordinate of the clicker of the platform
IsValidCoordinate(pf, x, y, scr) ==
  IF pf = "windows" /\ GetScreenSize(scr).err # NoError THEN FALSE
  ELSE x >= 0 /\ y >= 0 /\ x < scr.width /\ y < scr.height

\* ValidateCoordinates
ValidateCoordinates(pf, x, y, scr) ==
  IF ~IsValidCoordinate(pf, x, y, scr)
  THEN IF GetScreenSize(scr).err # NoError
       THEN WrapError(GetScreenSize(scr).err,
                      "failed to get screen size for validation")
       ELSE Errorf("coordinates are out of screen bounds")
  ELSE NoError

IsButton(button) == button \in {LeftButton, RightButton, MiddleButton}

\* performClick: both events go to the OS in one SendInput call
performClick(absX, absY, button, os) ==
  IF ~IsButton(button) THEN Clicked(<< >>, Errorf("unsupported mouse button"))
  ELSE IF ~os.sendInput THEN Clicked(<< >>, WrapError(Errno, "SendInput failed"))
  ELSE Clicked(<< Ev("down", absX, absY, button), Ev("up", absX, absY, button) >>,
               NoError)

\* WindowsMouseClicker.BackgroundClick
WindowsBackgroundClick(x, y, opts, scr, os) ==
  LET options == IF opts = Nil THEN DefaultClickOptions ELSE Deref(opts)
      verr == ValidateCoordinates("windows", x, y, scr)
      size == GetScreenSize(scr)
      absX == (x * 65535) \div size.width
      absY == (y * 65535) \div size.height
      before == << Ev("GetCursorPos", 0, 0, 0) >>
                \o If(options.RestoreFocus, << Ev("GetForegroundWindow", 0, 0, 0) >>)
                \o If(options.RandomDelay, << Sleep(os.pre) >>)
      click == performClick(absX, absY, options.Button, os)
      clicked == before \o click.events
                 \o If(options.Delay > 0, << Sleep(options.Delay) >>)
                 \o If(options.RandomDelay, << Sleep(os.post) >>)
      restored == clicked \o << Ev("SetCursorPos", 0, 0, 0) >>
                  \o If(options.RestoreFocus /\ os.foreground # NoWindow,
                        << Ev("SetForegroundWindow", 0, 0, os.foreground) >>)
  IN  IF verr # NoError THEN Clicked(<< >>, verr)
      ELSE IF size.err # NoError
      THEN Clicked(<< >>, WrapError(size.err, "failed to get screen size"))
      ELSE IF ~os.getCursorPos
      THEN Clicked(<< >>, WrapError(Errorf("GetCursorPos failed"),
                                   "failed to get cursor position"))
      ELSE IF click.err # NoError
      THEN Clicked(before, WrapError(click.err, "failed to perform click"))
      ELSE IF ~os.setCursorPos
      THEN Clicked(clicked, WrapError(Errorf("SetCursorPos failed"),
                                      "failed to restore cursor position"))
      ELSE Clicked(restored, NoError)

\* performBackgroundClick (C): the return code is turned into the error by
\* DarwinMouseClicker.BackgroundClick
performBackgroundClick(x, y, button, delay, os) ==
  CASE os.create = "nodown" ->
         Clicked(<< >>, Errorf("failed to create mouse down event"))
    [] os.create = "noup" ->
         Clicked(<< >>, Errorf("failed to create mouse up event"))
    [] OTHER ->
         Clicked(<< Ev("down", x, y, button) >>
                 \o If(delay > 0, << Sleep(delay) >>)
                 \o << Ev("up", x, y, button) >>, NoError)

\* DarwinMouseClicker.BackgroundClick
DarwinBackgroundClick(x, y, opts, scr, os) ==
  LET options == IF opts = Nil THEN DefaultClickOptions ELSE Deref(opts)
      verr == ValidateCoordinates("darwin", x, y, scr)
  IN  IF verr # NoError THEN Clicked(<< >>, verr)
      ELSE IF ~IsButton(options.Button)
      THEN Clicked(<< >>, Errorf("unsupported mouse button"))
      ELSE performBackgroundClick(x, y, options.Button, options.Delay, os)

\* clicker.BackgroundClick of the clicker NewMouseClicker gives
ClickerBackgroundClick(pf, x, y, opts, scr, os) ==
  IF pf = "windows" THEN WindowsBackgroundClick(x, y, opts, scr, os)
  ELSE DarwinBackgroundClick(x, y, opts, scr, os)

\* the low word of lParam: x & 0xFFFF
LowWord(x) == x % 65536

\* postMessageClickInternal: the three messages sent to hwnd
postMessageClickInternal(hwnd, x, y, options) ==
  IF ~IsButton(options.Button)
  THEN Clicked(<< >>, Errorf("unsupported mouse button"))
  ELSE Clicked(<< Ev("move", LowWord(x), LowWord(y), hwnd), Sleep(10),
                  Ev("down", LowWord(x), LowWord(y), hwnd),
                  Sleep(IF options.Delay > 0 THEN options.Delay ELSE 10),
                  Ev("up", LowWord(x), LowWord(y), hwnd) >>, NoError)

\* WindowsMouseClicker.PostMessageClick
PostMessageClick(hwnd, x, y, opts) ==
  LET options == IF opts = Nil THEN DefaultClickOptions ELSE Deref(opts)
  IN  IF hwnd = 0 THEN Clicked(<< >>, Errorf("invalid window handle"))
      ELSE postMessageClickInternal(hwnd, x, y, options)

\* ScreenToClient: the point is left as it is when the call fails
ScreenToClient(hwnd, pt) ==
  IF hwnd = NoWindow THEN pt
  ELSE Point(pt.X - ClientOrigin(hwnd).X, pt.Y - ClientOrigin(hwnd).Y)

\* WindowsMouseClicker.PostMessageClickAtScreenCoords
PostMessageClickAtScreenCoords(parentHwnd, screenX, screenY, opts, os) ==
  LET options == IF opts = Nil THEN DefaultClickOptions ELSE Deref(opts)
      targetHwnd == IF os.windowFromPoint = 0 THEN parentHwnd
                    ELSE os.windowFromPoint
      clientPt == ScreenToClient(targetHwnd, Point(screenX, screenY))
  IN  postMessageClickInternal(targetHwnd, clientPt.X, clientPt.Y, options)


\* the function and arguments of a mouse call
MouseCall(fn, x, y, opts, hwnd) ==
  [fn |-> fn, x |-> x, y |-> y, opts |-> opts, hwnd |-> hwnd]

\* what a mouse call returns: the bool of IsValidCoordinate, or else the error
MouseReturned(valid, e) == [valid |-> valid, err |-> e]

\* the package-level click functions and the button each one clicks
ButtonFunctions ==
  {<< "BackgroundLeftClick", LeftButton >>,
   << "BackgroundRightClick", RightButton >>,
   << "BackgroundMiddleClick", MiddleButton >>,
   << "BackgroundClick", 3 >>}

\* the goroutine of a call parks at every time.Sleep (usleep on macOS), where
\* other goroutines run: the OS calls of a call up to and including its next
\* wait
UntilSleep(evs) ==
  IF \E i \in 1..Len(evs) : evs[i].kind = "sleep"
  THEN SubSeq(evs, 1, CHOOSE i \in 1..Len(evs) :
                        /\ evs[i].kind = "sleep"
                        /\ \A j \in 1..(i - 1) : evs[j].kind # "sleep")
  ELSE evs

\* the OS calls after that wait
AfterSleep(evs) == SubSeq(evs, Len(UntilSleep(evs)) + 1, Len(evs))

\* the call waits before it returns
Sleeps(evs) == \E i \in 1..Len(evs) : evs[i].kind = "sleep"

\* what a parked call does once it wakes, and the error it will return
Parked(evs, e) == [events |-> evs, err |-> e]

\* a click call from its entry to its first wait, or to its return when it
\* does not wait
RunToSleep(done) ==
  /\ events' = UntilSleep(done.events)
  /\ parked' = IF Sleeps(done.events)
               THEN Ref(Parked(AfterSleep(done.events), done.err))
               ELSE Nil

\* a parked call from its wake-up to its next wait, or to its return
RunFromSleep ==
  /\ events' = events \o UntilSleep(Deref(parked).events)
  /\ parked' = IF Sleeps(Deref(parked).events)
               THEN Ref(Parked(AfterSleep(Deref(parked).events),
                               Deref(parked).err))
               ELSE Nil

\* what the mouse call has returned when this step is over
ReturnedAfter(evs, e) ==
  IF Sleeps(evs) THEN Nil ELSE Ref(MouseReturned(FALSE, e))

\* The clicker structs have no fields and the package keeps no state between
\* calls, so a behaviour follows one call from the moment before it.
InitMouse ==
  /\ platform \in {"windows", "darwin"}
  /\ screen \in Screens
  /\ mcall = Nil
  /\ events = << >>
  /\ retMouse = Nil
  /\ parked = Nil
  /\ MatcherUnused
  /\ CaptureAtRest
  /\ MapperAtRest
  /\ ProcessAtRest
  /\ FindAtRest
  /\ ThreadsAtRest

\* clicker.IsValidCoordinate(x, y)
CallIsValidCoordinate ==
  /\ mcall = Nil
  /\ \E p \in Coordinates :
       /\ mcall' = Ref(MouseCall("IsValidCoordinate", p.X, p.Y, Nil, NoWindow))
       /\ retMouse' = Ref(MouseReturned(IsValidCoordinate(platform, p.X, p.Y, screen),
                                        NoError))
  /\ events' = << >>
  /\ UNCHANGED << platform, screen, parked, matcherVars, captureVars, mapperVars,
                  processVars, findVars, threads >>

\* mouse.ValidateCoordinates(x, y)
CallValidateCoordinates ==
  /\ mcall = Nil
  /\ \E p \in Coordinates :
       /\ mcall' = Ref(MouseCall("ValidateCoordinates", p.X, p.Y, Nil, NoWindow))
       /\ retMouse' = Ref(MouseReturned(FALSE,
                                        ValidateCoordinates(platform, p.X, p.Y, screen)))
  /\ events' = << >>
  /\ UNCHANGED << platform, screen, parked, matcherVars, captureVars, mapperVars,
                  processVars, findVars, threads >>

\* clicker.BackgroundClick(x, y, options), to its first wait
CallBackgroundClick ==
  /\ mcall = Nil
  /\ \E p \in Coordinates, opts \in OptionsOf, os \in OsOutcomes :
       LET done == ClickerBackgroundClick(platform, p.X, p.Y, opts, screen, os)
       IN  /\ mcall' = Ref(MouseCall("MouseClicker.BackgroundClick", p.X, p.Y,
                                     opts, NoWindow))
           /\ RunToSleep(done)
           /\ retMouse' = ReturnedAfter(done.events, done.err)
  /\ UNCHANGED << platform, screen, matcherVars, captureVars, mapperVars,
                  processVars, findVars, threads >>

\* mouse.BackgroundClick(x, y, button) and the three functions that name the
\* button, to the first wait
CallBackgroundClickButton ==
  /\ mcall = Nil
  /\ \E p \in Coordinates, f \in ButtonFunctions, os \in OsOutcomes :
       LET opts == Ref(ClickOptions(f[2], 50, FALSE, FALSE))
           done == ClickerBackgroundClick(platform, p.X, p.Y, opts, screen, os)
       IN  /\ mcall' = Ref(MouseCall(f[1], p.X, p.Y, opts, NoWindow))
           /\ RunToSleep(done)
           /\ retMouse' = ReturnedAfter(done.events, done.err)
  /\ UNCHANGED << platform, screen, matcherVars, captureVars, mapperVars,
                  processVars, findVars, threads >>

\* clicker.PostMessageClick(hwnd, x, y, options), to its first wait
CallPostMessageClick ==
  /\ mcall = Nil
  /\ platform = "windows"
  /\ \E hwnd \in {NoWindow, ParentWindow, ChildWindow}, p \in Coordinates,
        opts \in OptionsOf :
       LET done == PostMessageClick(hwnd, p.X, p.Y, opts)
       IN  /\ mcall' = Ref(MouseCall("PostMessageClick", p.X, p.Y, opts, hwnd))
           /\ RunToSleep(done)
           /\ retMouse' = ReturnedAfter(done.events, done.err)
  /\ UNCHANGED << platform, screen, matcherVars, captureVars, mapperVars,
                  processVars, findVars, threads >>

\* clicker.PostMessageClickAtScreenCoords(parentHwnd, screenX, screenY,
\* options), to its first wait
CallPostMessageClickAtScreenCoords ==
  /\ mcall = Nil
  /\ platform = "windows"
  /\ \E hwnd \in {NoWindow, ParentWindow}, p \in Coordinates,
        opts \in OptionsOf, os \in OsOutcomes :
       LET done == PostMessageClickAtScreenCoords(hwnd, p.X, p.Y, opts, os)
       IN  /\ mcall' = Ref(MouseCall("PostMessageClickAtScreenCoords", p.X, p.Y,
                                     opts, hwnd))
           /\ RunToSleep(done)
           /\ retMouse' = ReturnedAfter(done.events, done.err)
  /\ UNCHANGED << platform, screen, matcherVars, captureVars, mapperVars,
                  processVars, findVars, threads >>

\* the goroutine of the click call wakes from time.Sleep and runs to its next
\* wait, or to the return of the call
WakeMouseCall ==
  /\ fpc = "idle"
  /\ parked # Nil
  /\ RunFromSleep
  /\ retMouse' = ReturnedAfter(Deref(parked).events, Deref(parked).err)
  /\ UNCHANGED << platform, screen, mcall, matcherVars, captureVars, mapperVars,
                  processVars, findVars, threads >>

NextMouse ==
  \/ CallIsValidCoordinate
  \/ CallValidateCoordinates
  \/ CallBackgroundClick
  \/ CallBackgroundClickButton
  \/ CallPostMessageClick
  \/ CallPostMessageClickAtScreenCoords
  \/ WakeMouseCall

SpecMouse == InitMouse /\ [][NextMouse]_vars

\* ------------------------------------------------------------------------
\* Properties of the mouse package
\* ------------------------------------------------------------------------

\* positions of the history with an event of this kind
EventsOf(kind) == {i \in 1..Len(events) : events[i].kind = kind}

\* the options the call runs with
OptionsUsed ==
  IF Deref(mcall).opts = Nil THEN DefaultClickOptions ELSE Deref(Deref(mcall).opts)

\* the functions that click
ClickFunctions ==
  {"MouseClicker.BackgroundClick", "BackgroundClick", "BackgroundLeftClick",
   "BackgroundRightClick", "BackgroundMiddleClick"}
MessageFunctions == {"PostMessageClick", "PostMessageClickAtScreenCoords"}

\* C22: with options.Delay > 0 the calling thread pauses for Delay
\* milliseconds after the button-down event and before the button-up event,
\* on the SendInput path, the SendMessage path and the CGEvent path
C22_DelayBetween ==
  (/\ retMouse # Nil
   /\ Deref(mcall).fn \in ClickFunctions \cup MessageFunctions
   /\ OptionsUsed.Delay > 0
   /\ EventsOf("down") # {}
   /\ EventsOf("up") # {}) =>
    \E i \in EventsOf("down"), j \in EventsOf("sleep"), k \in EventsOf("up") :
      /\ i < j
      /\ j < k
      /\ events[j].arg = OptionsUsed.Delay

\* the point of the call is on the screen
OnScreen ==
  /\ 0 <= Deref(mcall).x
  /\ Deref(mcall).x < screen.width
  /\ 0 <= Deref(mcall).y
  /\ Deref(mcall).y < screen.height

\* C23: a click function called with a point off the screen returns an error
\* and makes no OS call that synthesizes an event or touches the cursor;
\* IsValidCoordinate is true exactly for the points on the screen, and
\* ValidateCoordinates returns nil exactly for them
C23_Validation ==
  /\ (mcall # Nil /\ Deref(mcall).fn \in ClickFunctions /\ ~OnScreen) =>
       /\ retMouse # Nil
       /\ Deref(retMouse).err # NoError
       /\ events = << >>
  /\ retMouse # Nil =>
    /\ Deref(mcall).fn = "IsValidCoordinate" =>
         (Deref(retMouse).valid <=> OnScreen)
    /\ Deref(mcall).fn = "ValidateCoordinates" =>
         ((Deref(retMouse).err = NoError) <=> OnScreen)

\* a left click asked for one column right of the last column was refused
C23_Witness ==
  /\ retMouse # Nil
  /\ Deref(mcall).fn = "BackgroundLeftClick"
  /\ screen.width > 0
  /\ Deref(mcall).x = screen.width
  /\ Deref(mcall).y = 0
  /\ Deref(retMouse).err # NoError
  /\ events = << >>

\* C30: PostMessageClick and PostMessageClickAtScreenCoords either return the
\* 'invalid window handle' error having sent no message, or send every mouse
\* message (move, button down, button up) to a nonzero window handle, at
\* every moment of the call
C30_NoNullHandle ==
  (mcall # Nil /\ Deref(mcall).fn \in MessageFunctions) =>
    \/ /\ retMouse # Nil
       /\ IsError(Deref(retMouse).err, Errorf("invalid window handle"))
       /\ events = << >>
    \/ \A i \in EventsOf("move") \cup EventsOf("down") \cup EventsOf("up") :
         events[i].arg # 0


\* ------------------------------------------------------------------------
\* FindAndClick
\* ------------------------------------------------------------------------

\* DefaultMultiScaleConfig, the config NewImageComparer gives the comparer
DefaultMultiScaleConfig == MultiScaleConfig(<< 50, 200, 10 >>, 70, 5)

\* windows FindAndClick is given: at the screen origin, inside the screen, and
\* partly off its left and upper edge
FindWindows ==
  {WindowInfo(1, Rectangle(Point(x, y), Point(x + 4, y + 4)), FALSE) :
     << x, y >> \in {<< 0, 0 >>, << 1, 1 >>, << 0 - 2, 0 - 1 >>}}

\* the options of FindAndClick's callers; FindAndLeftClick and
\* FindAndRightClick pass the button and Delay 50
FindFunctions ==
  {<< "FindAndClick", Nil >>,
   << "FindAndLeftClick", Ref(ClickOptions(LeftButton, 50, FALSE, FALSE)) >>,
   << "FindAndRightClick", Ref(ClickOptions(RightButton, 50, FALSE, FALSE)) >>}

\* ClickAtMatch that clicks at the window-relative location
ClickAtMatchInWindow(m, w, options, pf, scr, os) ==
  [point |-> m.Location,
   click |-> ClickerBackgroundClick(pf, m.Location.X, m.Location.Y, options, scr, os)]

\* MatchResult.ClickAtMatch: the point it clicks at and what the click did
ClickAtMatch(m, w, options, pf, scr, os) ==
  LET screenCoords == ToScreenCoordinates(m, w)
  IN  [point |-> screenCoords,
       click |-> ClickerBackgroundClick(pf, screenCoords.X, screenCoords.Y,
                                        options, scr, os)]

\* what FindAndClick returns
FindReturned(result, e) == [result |-> result, err |-> e]

\* FindAndClick has been called and is about to call CompareImages
InitFindAndClick ==
  /\ fpc = "compare"
  /\ \E f \in FindFunctions, w \in FindWindows :
       fcall = Ref([fn |-> f[1], windowInfo |-> w, options |-> f[2]])
  /\ retFind = Nil
  /\ platform \in {"windows", "darwin"}
  /\ screen \in Screens
  /\ mcall = Nil
  /\ events = << >>
  /\ retMouse = Nil
  /\ parked = Nil
  /\ source = [Cols |-> AnySource[1], Rows |-> AnySource[2]]
  /\ template = [Cols |-> 1, Rows |-> 1]
  /\ literals = << 50, 200, 10 >>
  /\ config = DefaultMultiScaleConfig
  /\ MatcherAtRest
  /\ CaptureAtRest
  /\ MapperAtRest
  /\ ProcessAtRest
  /\ ThreadsAtRest

\* FindAndClick from the return of CompareImages to the first wait of the
\* click, or to its own return when it does not get that far
FindAndClick ==
  /\ fpc = "compare"
  /\ pc = "idle"
  /\ retBest # Nil \/ err # NoError
  /\ IF err # NoError
     THEN /\ retFind' = Ref(FindReturned(Nil, WrapError(err, "compare failed")))
          /\ fpc' = "done"
          /\ UNCHANGED << mcall, events, parked >>
     ELSE IF BestRet.Similarity = 0
     THEN /\ retFind' = Ref(FindReturned(retBest,
                                         WrapError(NoError, "no matching image")))
          /\ fpc' = "done"
          /\ UNCHANGED << mcall, events, parked >>
     ELSE \E os \in OsOutcomes :
            LET done == ClickAtMatch(BestRet, Deref(fcall).windowInfo,
                                     Deref(fcall).options, platform, screen, os)
            IN  /\ mcall' = Ref(MouseCall("MouseClicker.BackgroundClick",
                                          done.point.X, done.point.Y,
                                          Deref(fcall).options, NoWindow))
                /\ RunToSleep(done.click)
                /\ IF Sleeps(done.click.events)
                   THEN /\ fpc' = "click"
                        /\ UNCHANGED retFind
                   ELSE /\ fpc' = "done"
                        /\ retFind' = Ref(FindReturned(retBest,
                                            WrapError(done.click.err, "click failed")))
  /\ UNCHANGED << fcall, platform, screen, retMouse, matcherVars, captureVars,
                  mapperVars, processVars, threads >>

\* the goroutine of FindAndClick wakes from a time.Sleep of the click and runs
\* to the next wait, or to the return of FindAndClick
FindAndClickWake ==
  /\ fpc = "click"
  /\ parked # Nil
  /\ RunFromSleep
  /\ IF Sleeps(Deref(parked).events)
     THEN UNCHANGED << fpc, retFind >>
     ELSE /\ fpc' = "done"
          /\ retFind' = Ref(FindReturned(retBest,
                              WrapError(Deref(parked).err, "click failed")))
  /\ UNCHANGED << fcall, platform, screen, mcall, retMouse, matcherVars,
                  captureVars, mapperVars, processVars, threads >>

NextFindAndClick ==
  \/ CompareImages
  \/ FindAndClick
  \/ FindAndClickWake

SpecFindAndClick == InitFindAndClick /\ [][NextFindAndClick]_vars

\* the comparison FindAndClick waited for found the template
Found == err = NoError /\ retBest # Nil /\ BestRet.Similarity # 0

\* C21: FindAndClick synthesizes a click only after the comparison has
\* returned without error and with Similarity # 0; when the comparison fails
\* or reports Similarity = 0 no click is performed; a call performs at most
\* one click, and it asks for it at ToScreenCoordinates(windowInfo) of the
\* match
C21_ClickAfterMatch ==
  /\ fpc = "compare" => (events = << >> /\ mcall = Nil)
  /\ fpc \in {"click", "done"} =>
       /\ ~Found => (events = << >> /\ mcall = Nil)
       /\ Cardinality(EventsOf("down")) <= 1
       /\ Cardinality(EventsOf("up")) <= 1
       /\ Found =>
            /\ mcall # Nil
            /\ Point(Deref(mcall).x, Deref(mcall).y) =
                 ToScreenCoordinates(BestRet, Deref(fcall).windowInfo)

\* a match in a window that is not at the screen origin was clicked
C21_Witness ==
  /\ fpc = "done"
  /\ Found
  /\ Deref(fcall).windowInfo.Rect.Min # ZeroPoint
  /\ Cardinality(EventsOf("down")) = 1
  /\ Cardinality(EventsOf("up")) = 1
  /\ Deref(retFind).err = NoError

\* C28: when the comparison inside FindAndClick yields Similarity = 0,
\* FindAndClick returns the result together with a non-nil error
C28_NotFoundError ==
  (fpc = "done" /\ err = NoError /\ retBest # Nil /\ BestRet.Similarity = 0) =>
    /\ Deref(retFind).result = retBest
    /\ Deref(retFind).err # NoError


\* the click methods of MatchResult and the options each one passes on
ClickAtMatchFunctions ==
  {<< "ClickAtMatch", Nil >>,
   << "LeftClickAtMatch", Ref(ClickOptions(LeftButton, 50, FALSE, FALSE)) >>,
   << "RightClickAtMatch", Ref(ClickOptions(RightButton, 50, FALSE, FALSE)) >>}

\* a caller holds a match result and the window it was found in
InitClickAtMatch ==
  /\ match \in MapperMatches
  /\ \E r \in MapperRects : windowInfo = WindowInfo(1, r, FALSE)
  /\ screenPoint = Nil
  /\ screenBox = Nil
  /\ platform \in {"windows", "darwin"}
  /\ screen \in Screens
  /\ mcall = Nil
  /\ events = << >>
  /\ retMouse = Nil
  /\ parked = Nil
  /\ MatcherUnused
  /\ CaptureAtRest
  /\ ProcessAtRest
  /\ FindAtRest
  /\ ThreadsAtRest

\* m.ClickAtMatch(windowInfo, options), m.LeftClickAtMatch(windowInfo) and
\* m.RightClickAtMatch(windowInfo), to the first wait of the click
CallClickAtMatch ==
  /\ mcall = Nil
  /\ \E f \in ClickAtMatchFunctions, os \in OsOutcomes :
       LET done == ClickAtMatch(match, windowInfo, f[2], platform, screen, os)
       IN  /\ mcall' = Ref(MouseCall(f[1], done.point.X, done.point.Y, f[2],
                                     NoWindow))
           /\ RunToSleep(done.click)
           /\ retMouse' = ReturnedAfter(done.click.events, done.click.err)
  /\ UNCHANGED << platform, screen, matcherVars, captureVars, mapperVars,
                  processVars, findVars, threads >>

NextClickAtMatch ==
  \/ CallClickAtMatch
  \/ WakeMouseCall

SpecClickAtMatch == InitClickAtMatch /\ [][NextClickAtMatch]_vars

\* ------------------------------------------------------------------------
\* Two match calls at the same time
\* ------------------------------------------------------------------------

\* what MatchTemplate and MinMaxLoc answer on an image pair: one score for
\* the template at its own size, one for every other size
Images ==
  {[same |-> a, other |-> b] : a \in {60, 80, 90}, b \in {60, 80, 90}}

\* the configs of the calls
ThreadConfigs ==
  {MultiScaleConfig(<< 90, 110, 10 >>, 70, m) : m \in {1, MaxResultsCap}}

\* gocv.MatchTemplate followed by gocv.MinMaxLoc
MinMaxLoc(t, size) ==
  [similarity |-> IF size = Point(t.template.Cols, t.template.Rows)
                  THEN t.image.same ELSE t.image.other,
   maxLoc |-> Point(t.source.Cols - size.X - 1, 0)]

\* the frame of a call of multiScaleTemplateMatching ("best") or
\* MultiScaleTemplateMatchingAll ("all") at the top of its loop
Called(fn, src, tmpl, cfg, img) ==
  [fn |-> fn, pc |-> "loop", source |-> src, template |-> tmpl, config |-> cfg,
   image |-> img, scale |-> cfg.MinScale, bestResult |-> Nil,
   bestSimilarity |-> 0, results |-> << >>, ret |-> Nil]

\* every call keeping bestResult, bestSimilarity and results in the frame of
\* the first call
AccumulatorOfFirst(ts, i) == 1

\* the frame that holds bestResult, bestSimilarity and results of call i: they
\* are local variables of the call
Accumulator(ts, i) == i

\* the next loop iteration, or the return, of call i
Step(ts, i) ==
  LET t == ts[i]
      a == Accumulator(ts, i)
      size == TemplateSize(t.template, t.scale)
      peak == MinMaxLoc(t, size)
      hit == MatchResult(peak.similarity, peak.maxLoc, t.scale, size)
  IN  IF t.fn = "best"
      THEN IF ~LoopCond(t.scale, t.config)
           THEN [ts EXCEPT ![i].pc = "done",
                           ![i].ret = Ref(IF ts[a].bestResult = Nil
                                          THEN NoMatchResult
                                          ELSE Deref(ts[a].bestResult))]
           ELSE IF IsDegenerate(size, t.source)
           THEN [ts EXCEPT ![i].scale = NextScale(t.scale, t.config)]
           ELSE IF IsBetter(peak.similarity, ts[a].bestSimilarity, t.config)
           THEN [ts EXCEPT ![i].scale = NextScale(t.scale, t.config),
                           ![a].bestResult = Ref(hit),
                           ![a].bestSimilarity = peak.similarity]
           ELSE [ts EXCEPT ![i].scale = NextScale(t.scale, t.config)]
      ELSE IF t.pc = "break" \/ ~LoopCond(t.scale, t.config)
           THEN [ts EXCEPT ![i].pc = "done",
                           ![i].ret = Ref(SortResults(ts[a].results))]
           ELSE IF IsDegenerate(size, t.source)
           THEN [ts EXCEPT ![i].scale = NextScale(t.scale, t.config)]
           ELSE LET kept == IF MeetsThreshold(peak.similarity, t.config)
                            THEN Append(ts[a].results, hit)
                            ELSE ts[a].results
                IN  IF ReachedMaxResults(kept, t.config)
                    THEN [ts EXCEPT ![i].pc = "break", ![a].results = kept]
                    ELSE [ts EXCEPT ![i].scale = NextScale(t.scale, t.config),
                                    ![a].results = kept]

\* two goroutines have called MultiScaleTemplateMatch or
\* MultiScaleTemplateMatchAll, each on its own images
InitConcurrent ==
  /\ \E f1 \in {"best", "all"}, f2 \in {"best", "all"},
        c1 \in ThreadConfigs, c2 \in ThreadConfigs,
        i1 \in Images, i2 \in Images :
       threads = << Called(f1, [Cols |-> AnySource[1], Rows |-> AnySource[2]],
                           [Cols |-> 2, Rows |-> 3], c1, i1),
                    Called(f2, [Cols |-> AnySource[1], Rows |-> AnySource[2]],
                           [Cols |-> 3, Rows |-> 3], c2, i2) >>
  /\ MatcherUnused
  /\ CaptureAtRest
  /\ MapperAtRest
  /\ ProcessAtRest
  /\ MouseAtRest
  /\ FindAtRest

\* the scheduler runs one of the calls for one loop iteration
ThreadStep ==
  /\ \E i \in 1..Len(threads) :
       /\ threads[i].pc # "done"
       /\ threads' = Step(threads, i)
  /\ UNCHANGED << matcherVars, captureVars, mapperVars, processVars,
                  mouseVars, findVars >>

NextConcurrent == ThreadStep

SpecConcurrent == InitConcurrent /\ [][NextConcurrent]_vars

\* what a call returns when it is the only one running
RECURSIVE RunAlone(_)
RunAlone(ts) ==
  IF ts[1].pc = "done" THEN ts[1].ret ELSE RunAlone(Step(ts, 1))

\* the call of frame t, before its first iteration
Restarted(t) == Called(t.fn, t.source, t.template, t.config, t.image)

\* every returned call returned what it returns alone
ReturnsAsAlone ==
  \A i \in 1..Len(threads) :
    threads[i].pc = "done" => threads[i].ret = RunAlone(<< Restarted(threads[i]) >>)

\* a step changes the frame of one call, to what that call makes of its own
\* frame
StepIsLocal ==
  \E i \in 1..Len(threads) :
    /\ threads'[i] = Step(<< threads[i] >>, 1)[1]
    /\ \A j \in 1..Len(threads) : j # i => threads'[j] = threads[j]

\* C26: for any interleaving of two concurrent match calls on different
\* images each call returns exactly the result it returns when run alone, and
\* the best-so-far accumulator and the result list of one call are never read
\* or written by the other
C26_NoInteraction ==
  /\ []ReturnsAsAlone
  /\ [][threads' # threads => StepIsLocal]_vars

\* both calls have returned, the steps of one having run between those of the
\* other, one with a match and a list that reached MaxResults
C26_Witness ==
  /\ threads # << >>
  /\ \A i \in 1..Len(threads) : threads[i].pc = "done"
  /\ threads[1].fn = "best"
  /\ Deref(threads[1].ret).Similarity = 90
  /\ threads[2].fn = "all"
  /\ Len(Deref(threads[2].ret)) = 1
  /\ Deref(threads[2].ret)[1].Similarity = 80

====
